---- MODULE Spec2Model ----
(***************************************************************************)
(* Model of the Peruquois project-assistant bot: the similarity matcher,   *)
(* the tiered project lookup, the note-appending store operation, the      *)
(* create-project and clarify-intent handlers and the disambiguation       *)
(* callback handler (src/main.py, src/notion_api.py).                      *)
(*                                                                         *)
(* Strings are sequences of one-character strings, so that lower-casing,   *)
(* substring tests, splitting and concatenation are computed as Python     *)
(* computes them.  Python dicts are functions whose DOMAIN is the key set. *)
(***************************************************************************)
EXTENDS Integers, Sequences, FiniteSets, TLC

VARIABLES store, pending, last, tasks, steps

vars == <<store, pending, last, tasks, steps>>

----------------------------------------------------------------------------
(* Bounds *)

\* number of handler invocations explored in one behaviour
MaxSteps == 3

----------------------------------------------------------------------------
(* Python string primitives *)

UpperAlpha == <<"A","B","C","D","E","F","G","H","I","J","K","L","M",
                "N","O","P","Q","R","S","T","U","V","W","X","Y","Z">>

LowerAlpha == <<"a","b","c","d","e","f","g","h","i","j","k","l","m",
                "n","o","p","q","r","s","t","u","v","w","x","y","z">>

Letters == {UpperAlpha[i] : i \in 1..26} \cup {LowerAlpha[i] : i \in 1..26}

ToLower == [c \in Letters |->
               IF \E i \in 1..26 : UpperAlpha[i] = c
               THEN LowerAlpha[CHOOSE i \in 1..26 : UpperAlpha[i] = c] ELSE c]

ToUpper == [c \in Letters |->
               IF \E i \in 1..26 : LowerAlpha[i] = c
               THEN UpperAlpha[CHOOSE i \in 1..26 : LowerAlpha[i] = c] ELSE c]

IsLetter(c) == c \in Letters

LowerChar(c) == IF IsLetter(c) THEN ToLower[c] ELSE c

UpperChar(c) == IF IsLetter(c) THEN ToUpper[c] ELSE c

\* str.lower()
Lower(s) == SubSeq([i \in 1..Len(s) |-> LowerChar(s[i])], 1, Len(s))

\* s.upper()
ToUpperSeq(s) == SubSeq([i \in 1..Len(s) |-> UpperChar(s[i])], 1, Len(s))

\* str.title(): a letter that follows a non-letter is upper-cased, others lower-cased
Title(s) ==
    SubSeq([i \in 1..Len(s) |->
               IF i = 1 \/ ~IsLetter(s[i-1]) THEN UpperChar(s[i]) ELSE LowerChar(s[i])],
           1, Len(s))

\* Python's `sub in s`
Contains(sub, s) ==
    \E i \in 1..(Len(s) - Len(sub) + 1) : \A j \in 1..Len(sub) : s[i + j - 1] = sub[j]

IsSpace(c) == c \in {" ", "\n", "\t"}

RECURSIVE SplitFrom(_, _, _)
SplitFrom(s, cur, acc) ==
    IF s = <<>>
    THEN IF cur = <<>> THEN acc ELSE Append(acc, cur)
    ELSE IF IsSpace(Head(s))
         THEN SplitFrom(Tail(s), <<>>, IF cur = <<>> THEN acc ELSE Append(acc, cur))
         ELSE SplitFrom(Tail(s), Append(cur, Head(s)), acc)

\* str.split() with no argument
Split(s) == SplitFrom(s, <<>>, <<>>)

RECURSIVE JoinSpace(_)
\* ' '.join(list)
JoinSpace(l) ==
    IF l = <<>> THEN <<>>
    ELSE IF Len(l) = 1 THEN l[1]
    ELSE l[1] \o <<" ">> \o JoinSpace(Tail(l))

\* truthiness of a str (None and '' are both falsy)
Truthy(s) == s # <<>>

\* dict.get(key, default)
Get(d, k, default) == IF k \in DOMAIN d THEN d[k] ELSE default

EmptyDict == [k \in {} |-> <<>>]

\* original_transcription=None of a text message
NoTranscription == <<>>

----------------------------------------------------------------------------
(* Text constants used by the handlers and by the inputs of the model *)

sMoon      == <<"m","o","o","n">>
sRetreat   == <<"r","e","t","r","e","a","t">>
sMoonSong  == <<"M","o","o","n"," ","S","o","n","g">>
sMoonRit   == <<"M","o","o","n"," ","R","i","t","u","a","l">>
sMoonCap   == <<"M","o","o","n">>
sSea       == <<"S","e","a">>
sMountain  == <<"M","o","u","n","t","a","i","n"," ","R","e","t","r","e","a","t">>
sOcean     == <<"O","c","e","a","n">>
sSong      == <<"S","o","n","g">>
sWorkshop  == <<"W","o","r","k","s","h","o","p">>
sRetreatT  == <<"R","e","t","r","e","a","t">>
sAlbum     == <<"A","l","b","u","m">>
sIdea      == <<"I","d","e","a">>
sV1        == <<"v","1">>
sVerse     == <<"n","e","w"," ","v","e","r","s","e">>
sHeard     == <<"h","u","m">>
sArchived  == <<"A","r","c","h","i","v","e","d">>
sArchive   == <<"a","r","c","h","i","v","e">>
sArchivedPfx == <<"A","r","c","h","i","v","e","d",":"," ">>
sUpdate    == <<"u","p","d","a","t","e">>

\* main.py:625, the note used when only a transcription is available
sAudioAdded == <<"A","u","d","i","o"," ","t","r","a","n","s","c","r","i","p","t","i","o","n",
                 " ","a","d","d","e","d"," ","t","o"," ","p","r","o","j","e","c","t">>

\* notion_api.py:209, separator between accumulated transcriptions
sNewAudio == <<"\n","\n","-","-","-"," ","N","e","w"," ","A","u","d","i","o"," ","-","-","-","\n">>

\* notion_api.py:229, separator between accumulated notes
sNoteSep == <<"\n","\n">>

Digits == <<"0","1","2","3","4","5","6","7","8","9">>

\* datetime.now().strftime("%Y-%m-%d %H:%M"), for the minute m of one fixed hour
Strftime(m) ==
    <<"2","0","2","5","-","0","1","-","0","1"," ","1","2",":">>
        \o <<Digits[(m \div 10) + 1], Digits[(m % 10) + 1]>>

----------------------------------------------------------------------------
(* Similarity matcher: NotionAPI._fuzzy_match, _calculate_similarity_score,  *)
(* find_similar_projects                                                     *)

variations ==
    << [base |-> <<"d","a","n","c","e">>,
        variants |-> { <<"d","a","n","c","i","n","g">>, <<"d","a","n","c","e","r">>,
                       <<"d","a","n","c","e","s">> }],
       [base |-> <<"c","o","u","r","s","e">>,
        variants |-> { <<"c","o","u","r","s","e","s">>, <<"c","l","a","s","s">>,
                       <<"c","l","a","s","s","e","s">>, <<"t","r","a","i","n","i","n","g">> }],
       [base |-> <<"w","o","r","k","s","h","o","p">>,
        variants |-> { <<"w","o","r","k","s","h","o","p","s">>, <<"s","e","s","s","i","o","n">>,
                       <<"s","e","s","s","i","o","n","s">> }],
       [base |-> <<"s","o","n","g">>,
        variants |-> { <<"s","o","n","g","s">>, <<"m","u","s","i","c">>,
                       <<"t","r","a","c","k">>, <<"t","r","a","c","k","s">> }],
       [base |-> <<"r","e","t","r","e","a","t">>,
        variants |-> { <<"r","e","t","r","e","a","t","s">>, <<"g","a","t","h","e","r","i","n","g">>,
                       <<"e","v","e","n","t">> }],
       [base |-> <<"b","o","o","k">>,
        variants |-> { <<"b","o","o","k","s">>, <<"w","r","i","t","i","n","g">>,
                       <<"t","e","x","t">> }],
       [base |-> <<"a","l","b","u","m">>,
        variants |-> { <<"a","l","b","u","m","s">>, <<"c","o","l","l","e","c","t","i","o","n">>,
                       <<"c","o","m","p","i","l","a","t","i","o","n">> }] >>

_fuzzy_match(keyword, text) ==
    LET words == Split(text)
    IN  \/ \E i \in 1..Len(words) :
              \/ Len(keyword) >= 3 /\ Contains(keyword, words[i])
              \/ Len(words[i]) >= 3 /\ Contains(words[i], keyword)
        \/ \E j \in 1..Len(variations) :
              \/ keyword = variations[j].base
                 /\ \E v \in variations[j].variants : Contains(v, text)
              \/ keyword \in variations[j].variants
                 /\ Contains(variations[j].base, text)

\* a variant that counts a keyword found in the notes and in the original
\* audio twice
KeywordScoreTwice(project, kw) ==
    LET keyword == Lower(kw)
        name == Lower(project.name)
        project_type == Lower(project.type)
        notes == Lower(project.notes)
        original_audio == Lower(project.original_audio)
        tags == [i \in 1..Len(project.tags) |-> Lower(project.tags[i])]
    IN    (IF Contains(keyword, name) THEN 10 ELSE 0)
        + (IF Contains(keyword, project_type) THEN 8 ELSE 0)
        + (IF Contains(keyword, JoinSpace(tags)) THEN 6 ELSE 0)
        + (IF Contains(keyword, notes) THEN 3 ELSE 0)
        + (IF Contains(keyword, original_audio) THEN 3 ELSE 0)
        + (IF _fuzzy_match(keyword, name) THEN 5 ELSE 0)
        + (IF _fuzzy_match(keyword, project_type) THEN 4 ELSE 0)

KeywordScore(project, kw) ==
    LET keyword == Lower(kw)
        name == Lower(project.name)
        project_type == Lower(project.type)
        notes == Lower(project.notes)
        original_audio == Lower(project.original_audio)
        tags == [i \in 1..Len(project.tags) |-> Lower(project.tags[i])]
    IN    (IF Contains(keyword, name) THEN 10 ELSE 0)
        + (IF Contains(keyword, project_type) THEN 8 ELSE 0)
        + (IF Contains(keyword, JoinSpace(tags)) THEN 6 ELSE 0)
        + (IF Contains(keyword, notes) \/ Contains(keyword, original_audio) THEN 3 ELSE 0)
        + (IF _fuzzy_match(keyword, name) THEN 5 ELSE 0)
        + (IF _fuzzy_match(keyword, project_type) THEN 4 ELSE 0)

RECURSIVE SumScores(_, _)
SumScores(project, keywords) ==
    IF keywords = <<>> THEN 0
    ELSE KeywordScore(project, Head(keywords)) + SumScores(project, Tail(keywords))

_calculate_similarity_score(project, keywords) == SumScores(project, keywords)

\* project.copy() with the 'similarity_score' key added
WithScore(project, score) ==
    [k \in DOMAIN project \cup {"similarity_score"} |->
        IF k = "similarity_score" THEN score ELSE project[k]]

RECURSIVE InsertDescBefore(_, _)
\* a variant that puts x before the elements of equal score
InsertDescBefore(sorted, x) ==
    IF sorted = <<>> THEN <<x>>
    ELSE IF Head(sorted).similarity_score > x.similarity_score
         THEN <<Head(sorted)>> \o InsertDescBefore(Tail(sorted), x)
         ELSE <<x>> \o sorted

RECURSIVE InsertDesc(_, _)
\* position of x in a list already sorted by descending score: after every
\* element whose score is >= x's (list.sort(reverse=True) is stable)
InsertDesc(sorted, x) ==
    IF sorted = <<>> THEN <<x>>
    ELSE IF Head(sorted).similarity_score >= x.similarity_score
         THEN <<Head(sorted)>> \o InsertDesc(Tail(sorted), x)
         ELSE <<x>> \o sorted

RECURSIVE SortDesc(_, _)
SortDesc(l, acc) ==
    IF l = <<>> THEN acc ELSE SortDesc(Tail(l), InsertDesc(acc, Head(l)))

RECURSIVE ScoredProjectsAll(_, _)
\* a variant that keeps the projects whose score is 0
ScoredProjectsAll(projects, keywords) ==
    IF projects = <<>> THEN <<>>
    ELSE <<WithScore(Head(projects),
                     _calculate_similarity_score(Head(projects), keywords))>>
             \o ScoredProjectsAll(Tail(projects), keywords)

RECURSIVE ScoredProjects(_, _)
ScoredProjects(projects, keywords) ==
    IF projects = <<>> THEN <<>>
    ELSE LET score == _calculate_similarity_score(Head(projects), keywords)
             rest  == ScoredProjects(Tail(projects), keywords)
         IN  IF score > 0 THEN <<WithScore(Head(projects), score)>> \o rest ELSE rest

\* l[:n]; a negative n counts from the end of the list
Take(l, n) ==
    IF n < 0 THEN SubSeq(l, 1, Len(l) + n)
    ELSE SubSeq(l, 1, IF Len(l) < n THEN Len(l) ELSE n)

\* a variant that returns every match, whatever the limit
find_similar_projects_unlimited(all_projects, search_keywords, limit) ==
    IF all_projects = <<>> THEN <<>>
    ELSE SortDesc(ScoredProjects(all_projects, Split(Lower(search_keywords))), <<>>)

\* find_similar_projects on the list that get_all_projects returned
find_similar_projects(all_projects, search_keywords, limit) ==
    IF all_projects = <<>> THEN <<>>
    ELSE Take(SortDesc(ScoredProjects(all_projects, Split(Lower(search_keywords))), <<>>),
              limit)

----------------------------------------------------------------------------
(* Tiered lookup: NotionAPI.find_project_by_keywords *)

NoProject == [id |-> 0]

FirstWhere(projects, P(_)) ==
    IF \E i \in 1..Len(projects) : P(projects[i])
    THEN projects[CHOOSE i \in 1..Len(projects) :
                      P(projects[i]) /\ \A j \in 1..(i-1) : ~P(projects[j])]
    ELSE NoProject

\* a variant that tries the partial name match first
find_project_by_keywords_partial_first(projects, keywords) ==
    LET keywords_lower == Lower(keywords)
        ExactName(p) == Lower(p.name) = keywords_lower
        InName(p)    == Contains(keywords_lower, Lower(p.name))
        InType(p)    == Contains(keywords_lower, Lower(p.type))
        InNotes(p)   == Contains(keywords_lower, Lower(p.notes))
    IN  IF FirstWhere(projects, InName) # NoProject THEN FirstWhere(projects, InName)
        ELSE IF FirstWhere(projects, ExactName) # NoProject
        THEN FirstWhere(projects, ExactName)
        ELSE IF FirstWhere(projects, InType) # NoProject THEN FirstWhere(projects, InType)
        ELSE FirstWhere(projects, InNotes)

find_project_by_keywords(projects, keywords) ==
    LET keywords_lower == Lower(keywords)
        ExactName(p) == Lower(p.name) = keywords_lower
        InName(p)    == Contains(keywords_lower, Lower(p.name))
        InType(p)    == Contains(keywords_lower, Lower(p.type))
        InNotes(p)   == Contains(keywords_lower, Lower(p.notes))
    IN  IF FirstWhere(projects, ExactName) # NoProject THEN FirstWhere(projects, ExactName)
        ELSE IF FirstWhere(projects, InName) # NoProject THEN FirstWhere(projects, InName)
        ELSE IF FirstWhere(projects, InType) # NoProject THEN FirstWhere(projects, InType)
        ELSE FirstWhere(projects, InNotes)

----------------------------------------------------------------------------
(* The record store, seen through get_all_projects: the list of parsed       *)
(* projects in the order the store returns them.                             *)

\* d[k] = v
Put(d, k, v) == [x \in DOMAIN d \cup {k} |-> IF x = k THEN v ELSE d[x]]

\* del d[k]
Del(d, k) == [x \in DOMAIN d \ {k} |-> d[x]]

\* NotionAPI._prepare_project_properties
_prepare_project_properties(project_data) ==
    LET p1 == IF "name" \in DOMAIN project_data
              THEN Put(EmptyDict, "Name", project_data["name"]) ELSE EmptyDict
        p2 == IF "type" \in DOMAIN project_data
              THEN Put(p1, "Type", project_data["type"]) ELSE p1
        p3 == IF "status" \in DOMAIN project_data
              THEN Put(p2, "Status", project_data["status"]) ELSE p2
        p4 == IF "notes" \in DOMAIN project_data
              THEN Put(p3, "Processed Notes", project_data["notes"]) ELSE p3
        p5 == IF "original_audio" \in DOMAIN project_data
              THEN Put(p4, "Original Audio", project_data["original_audio"]) ELSE p4
    IN  IF "tags" \in DOMAIN project_data /\ project_data["tags"] # <<>>
        THEN Put(p5, "Tags", project_data["tags"]) ELSE p5

\* NotionAPI._parse_project_from_page of a page holding these properties
\* (_extract_title, _extract_select, _extract_rich_text give '' and
\* _extract_multi_select gives [] for a property the page does not hold)
_parse_project_from_page(id, properties) ==
    [id             |-> id,
     name           |-> Get(properties, "Name", <<>>),
     type           |-> Get(properties, "Type", <<>>),
     status         |-> Get(properties, "Status", <<>>),
     notes          |-> Get(properties, "Processed Notes", <<>>),
     original_audio |-> Get(properties, "Original Audio", <<>>),
     tags           |-> Get(properties, "Tags", <<>>)]

Ids(st) == {st[i].id : i \in 1..Len(st)}

\* identifier the store gives to the next created page (never reused)
NextId(st) == IF st = <<>> THEN 1 ELSE 1 + CHOOSE m \in Ids(st) : \A x \in Ids(st) : x <= m

InsertAt(st, pos, p) == SubSeq(st, 1, pos - 1) \o <<p>> \o SubSeq(st, pos, Len(st))

\* the store's answer to POST pages: the page is added to the database
StoreCreate(st, properties, pos) ==
    InsertAt(st, pos, _parse_project_from_page(NextId(st), properties))

\* the store's answer to PATCH pages/{id}: only the given properties change
PatchedProject(p, properties) ==
    [id             |-> p.id,
     name           |-> Get(properties, "Name", p.name),
     type           |-> Get(properties, "Type", p.type),
     status         |-> Get(properties, "Status", p.status),
     notes          |-> Get(properties, "Processed Notes", p.notes),
     original_audio |-> Get(properties, "Original Audio", p.original_audio),
     tags           |-> Get(properties, "Tags", p.tags)]

StorePatch(st, id, properties) ==
    [i \in 1..Len(st) |-> IF st[i].id = id THEN PatchedProject(st[i], properties) ELSE st[i]]

\* NotionAPI.get_all_projects: what one call may return, the list of the
\* store when the request succeeds and [] when it fails
get_all_projects(st) == { [ok |-> TRUE, projects |-> st], [ok |-> FALSE, projects |-> <<>>] }

\* where the store may list a new record among the others: it sorts by a Date
\* property that the bot never sets, so the place is the store's choice
\* (first and last are modelled)
InsertPositions(st) == { 1, Len(st) + 1 }

----------------------------------------------------------------------------
(* NotionAPI.add_notes_to_project *)

\* a variant that writes the new note in place of the stored notes
NotesPropertiesOverwrite(project, update_data, m) ==
    LET a == IF "original_audio" \in DOMAIN update_data
             THEN Put(EmptyDict, "Original Audio", update_data["original_audio"])
             ELSE EmptyDict
    IN  IF "additional_notes" \in DOMAIN update_data
        THEN Put(a, "Processed Notes",
                 <<"[">> \o Strftime(m) \o <<"]", " ">>
                     \o Title(Get(update_data, "note_type", sUpdate))
                     \o <<":", " ">> \o update_data["additional_notes"])
        ELSE a

\* the properties the patch carries, computed from the project as it was read
NotesProperties(project, update_data, m) ==
    LET a == IF "original_audio" \in DOMAIN update_data
             THEN Put(EmptyDict, "Original Audio",
                      IF Truthy(project.original_audio)
                      THEN project.original_audio \o sNewAudio \o update_data["original_audio"]
                      ELSE update_data["original_audio"])
             ELSE EmptyDict
        formatted_note ==
             <<"[">> \o Strftime(m) \o <<"]", " ">>
                 \o Title(Get(update_data, "note_type", sUpdate))
                 \o <<":", " ">> \o update_data["additional_notes"]
    IN  IF "additional_notes" \in DOMAIN update_data
        THEN Put(a, "Processed Notes",
                 IF Truthy(project.notes)
                 THEN project.notes \o sNoteSep \o formatted_note
                 ELSE formatted_note)
        ELSE a

QueryCall(ok) == [op |-> "query", ok |-> ok]
PatchCall(id, properties, ok) == [op |-> "patch", id |-> id, properties |-> properties, ok |-> ok]
CreateCall(properties, ok) == [op |-> "create", properties |-> properties, ok |-> ok]

NotesResult(st, success, calls) == [store |-> st, success |-> success, calls |-> calls]

\* add_notes_to_project once get_all_projects has returned `read`
AddNotesAfterRead(st, read, project_identifier, update_data, m) ==
    LET project == find_project_by_keywords(read.projects, project_identifier)
        properties == NotesProperties(project, update_data, m)
    IN  IF project = NoProject
        THEN { NotesResult(st, FALSE, <<QueryCall(read.ok)>>) }
        ELSE IF properties = EmptyDict
        THEN { NotesResult(st, TRUE, <<QueryCall(read.ok)>>) }
        ELSE { NotesResult(StorePatch(st, project.id, properties), TRUE,
                           <<QueryCall(read.ok), PatchCall(project.id, properties, TRUE)>>),
               NotesResult(st, FALSE,
                           <<QueryCall(read.ok), PatchCall(project.id, properties, FALSE)>>) }

\* the possible results of one call: the store afterwards, the bool returned,
\* the store requests issued
add_notes_to_project(st, project_identifier, update_data, m) ==
    UNION { AddNotesAfterRead(st, read, project_identifier, update_data, m) :
                read \in get_all_projects(st) }

----------------------------------------------------------------------------
(* NotionAPI.update_project_status and NotionAPI.archive_project *)

RECURSIVE IdText(_)
\* the text of a page id, as it appears in the endpoint f"pages/{id}"
IdText(id) ==
    IF id < 10 THEN <<Digits[id + 1]>>
    ELSE IdText(id \div 10) \o <<Digits[(id % 10) + 1]>>

\* the page that the endpoint pages/{address} denotes, 0 when the store has
\* no page with that id (the request is then answered with an error status)
PageOf(st, address) ==
    IF \E i \in 1..Len(st) : IdText(st[i].id) = address
    THEN st[CHOOSE i \in 1..Len(st) : IdText(st[i].id) = address].id
    ELSE 0

StatusProperties(new_status) == [k \in {"Status"} |-> new_status]

\* the possible results of update_project_status(project_id, new_status)
update_project_status(st, project_id, new_status) ==
    LET page == PageOf(st, project_id)
        properties == StatusProperties(new_status)
    IN  { NotesResult(st, FALSE, <<PatchCall(page, properties, FALSE)>>) }
        \cup (IF page = 0 THEN {}
              ELSE { NotesResult(StorePatch(st, page, properties), TRUE,
                                 <<PatchCall(page, properties, TRUE)>>) })

\* a variant whose result also depends on the note patch
ArchiveAfterReadBoth(st, read, project_identifier, reason, m) ==
    LET project == find_project_by_keywords(read.projects, project_identifier)
        archive_data == [additional_notes |-> sArchivedPfx \o reason,
                         note_type |-> sArchive]
    IN  IF project = NoProject
        THEN { NotesResult(st, FALSE, <<QueryCall(read.ok)>>) }
        ELSE UNION {
               IF s.success /\ Truthy(reason)
               THEN { NotesResult(n.store, s.success /\ n.success,
                                  <<QueryCall(read.ok)>> \o s.calls \o n.calls) :
                        n \in add_notes_to_project(s.store, project_identifier,
                                                   archive_data, m) }
               ELSE { NotesResult(s.store, s.success, <<QueryCall(read.ok)>> \o s.calls) } :
               s \in update_project_status(st, IdText(project.id), sArchived) }

\* archive_project once its get_all_projects has returned `read`
ArchiveAfterRead(st, read, project_identifier, reason, m) ==
    LET project == find_project_by_keywords(read.projects, project_identifier)
        archive_data == [additional_notes |-> sArchivedPfx \o reason,
                         note_type |-> sArchive]
    IN  IF project = NoProject
        THEN { NotesResult(st, FALSE, <<QueryCall(read.ok)>>) }
        ELSE UNION {
               IF s.success /\ Truthy(reason)
               THEN { NotesResult(n.store, s.success,
                                  <<QueryCall(read.ok)>> \o s.calls \o n.calls) :
                        n \in add_notes_to_project(s.store, project_identifier,
                                                   archive_data, m) }
               ELSE { NotesResult(s.store, s.success, <<QueryCall(read.ok)>> \o s.calls) } :
               s \in update_project_status(st, IdText(project.id), sArchived) }

\* the possible results of archive_project(project_identifier, reason)
archive_project(st, project_identifier, reason, m) ==
    UNION { ArchiveAfterRead(st, read, project_identifier, reason, m) :
                read \in get_all_projects(st) }

----------------------------------------------------------------------------
(* NotionAPI.update_project_info *)

\* the properties update_project_info puts in its PATCH request
InfoProperties(updates) ==
    LET p1 == IF "name" \in DOMAIN updates
              THEN Put(EmptyDict, "Name", updates["name"]) ELSE EmptyDict
        p2 == IF "type" \in DOMAIN updates
              THEN Put(p1, "Type", updates["type"]) ELSE p1
    IN  IF "status" \in DOMAIN updates
        THEN Put(p2, "Status", updates["status"]) ELSE p2

\* update_project_info once its get_all_projects has returned `read`
InfoAfterRead(st, read, project_identifier, updates) ==
    LET project == find_project_by_keywords(read.projects, project_identifier)
        properties == InfoProperties(updates)
    IN  IF project = NoProject
        THEN { NotesResult(st, FALSE, <<QueryCall(read.ok)>>) }
        ELSE { NotesResult(StorePatch(st, project.id, properties), TRUE,
                           <<QueryCall(read.ok), PatchCall(project.id, properties, TRUE)>>),
               NotesResult(st, FALSE,
                           <<QueryCall(read.ok), PatchCall(project.id, properties, FALSE)>>) }

\* the possible results of update_project_info(project_identifier, updates)
update_project_info(st, project_identifier, updates) ==
    UNION { InfoAfterRead(st, read, project_identifier, updates) :
                read \in get_all_projects(st) }

----------------------------------------------------------------------------
(* Callback data of the inline keyboard: main.py:527-532, parsed at 589-603 *)

cbCancel    == <<"c","a","n","c","e","l">>
cbCreateNew == <<"c","r","e","a","t","e","_","n","e","w">>
cbSelectPfx == <<"s","e","l","e","c","t","_","p","r","o","j","e","c","t","_">>

\* str(i) for the small integers used as button indices
IntToStr(i) == IF i < 0 THEN <<"-", Digits[1 - i]>> ELSE <<Digits[i + 1]>>

\* f"select_project_{i}"
cbSelect(i) == cbSelectPfx \o IntToStr(i)

StartsWith(s, pfx) == Len(s) >= Len(pfx) /\ SubSeq(s, 1, Len(pfx)) = pfx

RECURSIVE LastPiece(_, _)
\* s.split("_")[-1]
LastPiece(s, cur) ==
    IF s = <<>> THEN cur
    ELSE IF Head(s) = "_" THEN LastPiece(Tail(s), <<>>)
    ELSE LastPiece(Tail(s), Append(cur, Head(s)))

IsDigit(c) == \E d \in 1..10 : Digits[d] = c

DigitVal(c) == (CHOOSE d \in 1..10 : Digits[d] = c) - 1

RECURSIVE NatVal(_, _)
NatVal(s, acc) == IF s = <<>> THEN acc ELSE NatVal(Tail(s), 10 * acc + DigitVal(Head(s)))

\* int(s): [ok |-> FALSE] stands for ValueError
ParseInt(s) ==
    LET body == IF s # <<>> /\ Head(s) \in {"-", "+"} THEN Tail(s) ELSE s
    IN  IF body = <<>> \/ \E i \in 1..Len(body) : ~IsDigit(body[i])
        THEN [ok |-> FALSE, val |-> 0]
        ELSE [ok |-> TRUE,
              val |-> IF s # <<>> /\ Head(s) = "-" THEN 0 - NatVal(body, 0) ELSE NatVal(body, 0)]

\* l[i] of Python for a list of length n: 0 stands for IndexError
PyIndex(i, n) ==
    IF 0 <= i /\ i < n THEN i + 1
    ELSE IF i < 0 /\ 0 - n <= i THEN n + i + 1
    ELSE 0

----------------------------------------------------------------------------
(* Handlers of src/main.py.  Each operator gives the possible outcomes of    *)
(* one whole handler run (one for each way the store may answer): the store  *)
(* and the pending map afterwards, the last message shown to the user and    *)
(* the store requests issued, in order.                                      *)

\* hasattr(processing_msg, 'bot') at main.py:538: a telegram.Message of the
\* library version that provides Application.builder() has no such attribute
MessageHasBot == FALSE

Outcome(st, pend, reply, calls) ==
    [store |-> st, pending |-> pend, reply |-> reply, calls |-> calls]

\* PeruquoisBot._handle_create_project
_handle_create_project(st, pend, intent_analysis, original_transcription) ==
    LET pd0 == Get(intent_analysis, "project_data", EmptyDict)
        project_data == IF Truthy(original_transcription)
                        THEN Put(pd0, "original_audio", original_transcription)
                        ELSE pd0
        properties == _prepare_project_properties(project_data)
    IN  { Outcome(StoreCreate(st, properties, pos), pend, "created",
                  <<CreateCall(properties, TRUE)>>) : pos \in InsertPositions(st) }
        \cup { Outcome(st, pend, "create_failed", <<CreateCall(properties, FALSE)>>) }

Context(intent_analysis, original_transcription, similar_projects) ==
    [intent_analysis        |-> intent_analysis,
     original_transcription |-> original_transcription,
     similar_projects       |-> similar_projects]

\* a variant that keeps a pending context the user already has
ClarifyAfterReadKeepOld(st, pend, user_id, intent_analysis, original_transcription, read) ==
    LET search_keywords == Get(intent_analysis, "search_keywords", <<>>)
        similar_projects == find_similar_projects(read.projects, search_keywords, 5)
    IN  IF similar_projects = <<>>
        THEN { Outcome(o.store, o.pending, o.reply, <<QueryCall(read.ok)>> \o o.calls) :
                 o \in _handle_create_project(st, pend, intent_analysis,
                                              original_transcription) }
        ELSE { Outcome(st,
                       IF user_id \in DOMAIN pend THEN pend
                       ELSE Put(pend, user_id,
                                Context(intent_analysis, original_transcription,
                                        similar_projects)),
                       "clarify_keyboard", <<QueryCall(read.ok)>>) }

\* a variant that reports a failed read instead of going on without candidates
ClarifyAfterReadReportsFailure(st, pend, user_id, intent_analysis, original_transcription, read) ==
    IF ~read.ok
    THEN { Outcome(st, pend, "error", <<QueryCall(read.ok)>>) }
    ELSE ClarifyAfterReadKeepOld(st, Del(pend, user_id), user_id, intent_analysis,
                                 original_transcription, read)

\* _handle_clarify_intent once get_all_projects has returned `read`
ClarifyAfterRead(st, pend, user_id, intent_analysis, original_transcription, read) ==
    LET search_keywords == Get(intent_analysis, "search_keywords", <<>>)
        similar_projects == find_similar_projects(read.projects, search_keywords, 5)
    IN  IF similar_projects = <<>>
        THEN { Outcome(o.store, o.pending, o.reply, <<QueryCall(read.ok)>> \o o.calls) :
                 o \in _handle_create_project(st, pend, intent_analysis,
                                              original_transcription) }
        ELSE { Outcome(st,
                       IF ~MessageHasBot
                       THEN Put(pend, user_id,
                                Context(intent_analysis, original_transcription,
                                        similar_projects))
                       ELSE pend,
                       "clarify_keyboard", <<QueryCall(read.ok)>>) }

\* a variant whose fallback for missing keywords drops the pending context
_handle_clarify_intent_reset(st, pend, user_id, intent_analysis, original_transcription) ==
    IF ~Truthy(Get(intent_analysis, "search_keywords", <<>>))
    THEN { Outcome(o.store, Del(o.pending, user_id), o.reply, o.calls) :
             o \in _handle_create_project(st, pend, intent_analysis,
                                          original_transcription) }
    ELSE UNION { ClarifyAfterRead(st, pend, user_id, intent_analysis,
                                  original_transcription, read) :
                     read \in get_all_projects(st) }

\* PeruquoisBot._handle_clarify_intent
_handle_clarify_intent(st, pend, user_id, intent_analysis, original_transcription) ==
    IF ~Truthy(Get(intent_analysis, "search_keywords", <<>>))
    THEN _handle_create_project(st, pend, intent_analysis, original_transcription)
    ELSE UNION { ClarifyAfterRead(st, pend, user_id, intent_analysis,
                                  original_transcription, read) :
                     read \in get_all_projects(st) }

\* the handler's own lookup of the project (find_project_by_keywords), then
\* the rest of the handler when the project was found
WithProject(st, pend, project_identifier, Rest(_, _)) ==
    UNION { LET project == find_project_by_keywords(read.projects, project_identifier)
            IN  IF project = NoProject
                THEN { Outcome(st, pend, "not_found", <<QueryCall(read.ok)>>) }
                ELSE Rest(project, <<QueryCall(read.ok)>>) :
            read \in get_all_projects(st) }

\* a variant that asks for the project identifier only
_handle_update_status_identifier_only(st, pend, intent_analysis) ==
    LET project_identifier == Get(intent_analysis, "project_identifier", <<>>)
        new_status == Get(intent_analysis, "new_status", <<>>)
        Rest(project, calls) ==
            { Outcome(res.store, pend,
                      IF res.success THEN "status_updated" ELSE "update_failed",
                      calls \o res.calls) :
                res \in update_project_status(st, project.name, new_status) }
    IN  IF ~Truthy(project_identifier)
        THEN { Outcome(st, pend, "not_specified", <<>>) }
        ELSE WithProject(st, pend, project_identifier, Rest)

\* PeruquoisBot._handle_update_status
_handle_update_status(st, pend, intent_analysis) ==
    LET project_identifier == Get(intent_analysis, "project_identifier", <<>>)
        new_status == Get(intent_analysis, "new_status", <<>>)
        Rest(project, calls) ==
            { Outcome(res.store, pend,
                      IF res.success THEN "status_updated" ELSE "update_failed",
                      calls \o res.calls) :
                res \in update_project_status(st, project.name, new_status) }
    IN  IF ~Truthy(project_identifier) \/ ~Truthy(new_status)
        THEN { Outcome(st, pend, "not_specified", <<>>) }
        ELSE WithProject(st, pend, project_identifier, Rest)

\* PeruquoisBot._handle_add_notes
_handle_add_notes(st, pend, intent_analysis, original_transcription, m) ==
    LET project_identifier == Get(intent_analysis, "project_identifier", <<>>)
        additional_notes == Get(intent_analysis, "additional_notes", <<>>)
        note_type == Get(intent_analysis, "note_type", sUpdate)
        u1 == IF Truthy(original_transcription)
              THEN Put(EmptyDict, "original_audio", original_transcription)
              ELSE EmptyDict
        update_data == Put(Put(u1, "additional_notes", additional_notes),
                           "note_type", note_type)
        Rest(project, calls) ==
            { Outcome(res.store, pend,
                      IF res.success THEN "notes_added" ELSE "notes_failed",
                      calls \o res.calls) :
                res \in add_notes_to_project(st, project_identifier, update_data, m) }
    IN  IF ~Truthy(project_identifier) \/ ~Truthy(additional_notes)
        THEN { Outcome(st, pend, "not_specified", <<>>) }
        ELSE WithProject(st, pend, project_identifier, Rest)

\* a variant that leaves the lookup of the project to archive_project
_handle_archive_project_unchecked(st, pend, intent_analysis, m) ==
    LET project_identifier == Get(intent_analysis, "project_identifier", <<>>)
        reason == Get(intent_analysis, "reason", <<>>)
    IN  IF ~Truthy(project_identifier)
        THEN { Outcome(st, pend, "not_specified", <<>>) }
        ELSE { Outcome(res.store, pend,
                       IF res.success THEN "archived" ELSE "archive_failed",
                       res.calls) :
                 res \in archive_project(st, project_identifier, reason, m) }

\* PeruquoisBot._handle_archive_project
_handle_archive_project(st, pend, intent_analysis, m) ==
    LET project_identifier == Get(intent_analysis, "project_identifier", <<>>)
        reason == Get(intent_analysis, "reason", <<>>)
        Rest(project, calls) ==
            { Outcome(res.store, pend,
                      IF res.success THEN "archived" ELSE "archive_failed",
                      calls \o res.calls) :
                res \in archive_project(st, project_identifier, reason, m) }
    IN  IF ~Truthy(project_identifier)
        THEN { Outcome(st, pend, "not_specified", <<>>) }
        ELSE WithProject(st, pend, project_identifier, Rest)

\* the changes the success message of _handle_update_project_info lists
ListedChanges(updates) ==
    (IF "name" \in DOMAIN updates THEN <<"name">> ELSE <<>>)
      \o (IF "type" \in DOMAIN updates THEN <<"type">> ELSE <<>>)
      \o (IF "tags" \in DOMAIN updates THEN <<"tags">> ELSE <<>>)

\* an outcome whose message lists changed fields
InfoOutcome(st, pend, reply, calls, changes) ==
    [store |-> st, pending |-> pend, reply |-> reply, calls |-> calls,
     changes |-> changes]

\* PeruquoisBot._handle_update_project_info
_handle_update_project_info(st, pend, intent_analysis) ==
    LET project_identifier == Get(intent_analysis, "project_identifier", <<>>)
        updates == Get(intent_analysis, "updates", EmptyDict)
        Rest(project, calls) ==
            { IF res.success
              THEN InfoOutcome(res.store, pend, "info_updated", calls \o res.calls,
                               ListedChanges(updates))
              ELSE Outcome(res.store, pend, "info_failed", calls \o res.calls) :
                res \in update_project_info(st, project_identifier, updates) }
    IN  IF ~Truthy(project_identifier) \/ updates = EmptyDict
        THEN { Outcome(st, pend, "not_specified", <<>>) }
        ELSE WithProject(st, pend, project_identifier, Rest)

\* PeruquoisBot._handle_update_project (the legacy action)
_handle_update_project(st, pend, intent_analysis) ==
    LET project_name == Get(intent_analysis, "project_name", <<>>)
        new_status == Get(intent_analysis, "new_status", <<>>)
    IN  IF ~Truthy(project_name) \/ ~Truthy(new_status)
        THEN { Outcome(st, pend, "not_specified", <<>>) }
        ELSE { Outcome(res.store, pend,
                       IF res.success THEN "status_updated" ELSE "not_found_or_failed",
                       res.calls) :
                 res \in update_project_status(st, project_name, new_status) }

\* PeruquoisBot._handle_query_projects.  NotionAPI has no attribute
\* get_projects_by_status or get_projects_by_type: the lookup of the attribute
\* raises AttributeError, which the handler's except clause answers
_handle_query_projects(st, pend, intent_analysis) ==
    LET query_type == Get(intent_analysis, "query_type", "")
    IN  IF query_type \in {"by_status", "by_type"}
        THEN { Outcome(st, pend, "query_error", <<>>) }
        ELSE { Outcome(st, pend,
                       IF read.projects = <<>> THEN "no_projects" ELSE "projects_listed",
                       <<QueryCall(read.ok)>>) :
                 read \in get_all_projects(st) }

\* PeruquoisBot._handle_general_chat
_handle_general_chat(st, pend, intent_analysis) ==
    { Outcome(st, pend, "general_chat", <<>>) }

\* PeruquoisBot._process_text_message, from the dispatch on the action
_process_text_message(st, pend, user_id, intent_analysis, original_transcription, m) ==
    LET action == Get(intent_analysis, "action", "")
    IN  IF intent_analysis = EmptyDict
        THEN { Outcome(st, pend, "not_understood", <<>>) }
        ELSE IF action = "create_project"
        THEN _handle_create_project(st, pend, intent_analysis, original_transcription)
        ELSE IF action = "clarify_intent"
        THEN _handle_clarify_intent(st, pend, user_id, intent_analysis,
                                    original_transcription)
        ELSE IF action = "update_status"
        THEN _handle_update_status(st, pend, intent_analysis)
        ELSE IF action = "add_notes"
        THEN _handle_add_notes(st, pend, intent_analysis, original_transcription, m)
        ELSE IF action = "update_project_info"
        THEN _handle_update_project_info(st, pend, intent_analysis)
        ELSE IF action = "archive_project"
        THEN _handle_archive_project(st, pend, intent_analysis, m)
        ELSE IF action = "update_project"
        THEN _handle_update_project(st, pend, intent_analysis)
        ELSE IF action = "query_projects"
        THEN _handle_query_projects(st, pend, intent_analysis)
        ELSE IF action = "general_chat"
        THEN _handle_general_chat(st, pend, intent_analysis)
        ELSE { Outcome(st, pend, "not_sure", <<>>) }

\* update_data built at main.py:610-626 for a selection
SelectionUpdateData(intent_analysis, original_transcription) ==
    LET project_data == Get(intent_analysis, "project_data", EmptyDict)
        additional_notes == Get(project_data, "notes", <<>>)
        u1 == IF Truthy(original_transcription)
              THEN Put(EmptyDict, "original_audio", original_transcription)
              ELSE EmptyDict
    IN  IF Truthy(additional_notes)
        THEN Put(Put(u1, "additional_notes", additional_notes), "note_type", sUpdate)
        ELSE IF Truthy(original_transcription)
        THEN Put(Put(u1, "additional_notes", sAudioAdded), "note_type", sUpdate)
        ELSE u1

\* the bound check of main.py:604
IndexAccepted(project_index, similar_projects) == project_index < Len(similar_projects)

\* the branch for "select_project_<i>" (main.py:601-638)
SelectProject(st, pend, user_id, callback_data, m) ==
    LET ctx == pend[user_id]
        similar_projects == ctx.similar_projects
        parsed == ParseInt(LastPiece(callback_data, <<>>))
        at == PyIndex(parsed.val, Len(similar_projects))
        project_name == similar_projects[at].name
    IN  IF ~parsed.ok THEN { Outcome(st, pend, "error", <<>>) }
        ELSE IF ~IndexAccepted(parsed.val, similar_projects)
        THEN { Outcome(st, pend, "invalid_selection", <<>>) }
        ELSE IF at = 0 THEN { Outcome(st, pend, "error", <<>>) }
        ELSE { Outcome(res.store, Del(pend, user_id),
                       IF res.success THEN "notes_added" ELSE "notes_failed", res.calls) :
                 res \in add_notes_to_project(st, project_name,
                             SelectionUpdateData(ctx.intent_analysis,
                                                 ctx.original_transcription), m) }

\* a variant that clears every pending context on cancel
CancelSelectionAll(st, pend, user_id) ==
    { Outcome(st, [u \in {} |-> <<>>], "cancelled", <<>>) }

\* the branch for "cancel" (main.py:589-592)
CancelSelection(st, pend, user_id) ==
    { Outcome(st, Del(pend, user_id), "cancelled", <<>>) }

\* a variant that keeps the pending context when the create fails
CreateNewKeepFailed(st, pend, user_id) ==
    { Outcome(o.store, IF o.reply = "created" THEN Del(pend, user_id) ELSE pend,
              o.reply, o.calls) :
        o \in _handle_create_project(st, pend, pend[user_id].intent_analysis,
                                     pend[user_id].original_transcription) }

\* the branch for "create_new" (main.py:594-599)
CreateNew(st, pend, user_id) ==
    { Outcome(o.store, Del(pend, user_id), o.reply, o.calls) :
        o \in _handle_create_project(st, pend, pend[user_id].intent_analysis,
                                     pend[user_id].original_transcription) }

\* a variant that handles cancel before looking for the pending context
handle_callback_query_cancel_first(st, pend, user_id, callback_data, m) ==
    IF callback_data = cbCancel
    THEN CancelSelection(st, pend, user_id)
    ELSE IF user_id \notin DOMAIN pend
    THEN { Outcome(st, pend, "expired", <<>>) }
    ELSE IF callback_data = cbCreateNew
    THEN CreateNew(st, pend, user_id)
    ELSE IF StartsWith(callback_data, cbSelectPfx)
    THEN SelectProject(st, pend, user_id, callback_data, m)
    ELSE { Outcome(st, pend, "none", <<>>) }

\* PeruquoisBot.handle_callback_query, run without interruption
handle_callback_query(st, pend, user_id, callback_data, m) ==
    IF user_id \notin DOMAIN pend
    THEN { Outcome(st, pend, "expired", <<>>) }
    ELSE IF callback_data = cbCancel
    THEN CancelSelection(st, pend, user_id)
    ELSE IF callback_data = cbCreateNew
    THEN CreateNew(st, pend, user_id)
    ELSE IF StartsWith(callback_data, cbSelectPfx)
    THEN SelectProject(st, pend, user_id, callback_data, m)
    ELSE { Outcome(st, pend, "none", <<>>) }

----------------------------------------------------------------------------
(* Inputs of the model *)

Users == {"u1", "u2"}

\* the single user the bot is written for
SoloUsers == {"u1"}

Project(id, name, type, notes, original_audio) ==
    [id |-> id, name |-> name, type |-> type, status |-> sIdea, notes |-> notes,
     original_audio |-> original_audio, tags |-> <<>>]

StoreRetreat == << Project(1, sMountain, sRetreatT, <<>>, <<>>) >>

\* six records that the keyword "moon" matches; 1 and 2 have the same name
\* (the store does not make names unique), 5 also matches "retreat"
StoreSix == << Project(1, sMoonCap, sSong, sV1, <<>>),
               Project(2, sMoonCap, sSong, <<>>, sHeard),
               Project(3, sSea, sAlbum, sMoon, <<>>),
               Project(4, sMoonSong, sSong, <<>>, <<>>),
               Project(5, sMoonCap, sRetreatT, <<>>, <<>>),
               Project(6, sMoonRit, sWorkshop, <<>>, <<>>) >>

StorePair == << Project(1, sMoonSong, sSong, <<>>, <<>>),
                Project(2, sMountain, sRetreatT, <<>>, <<>>) >>

InitStores == { StoreRetreat, StoreSix }

ClarifyMoon ==
    [action |-> "clarify_intent", search_keywords |-> sMoon,
     project_data |-> [name |-> sMoonSong, type |-> sSong, notes |-> sVerse]]

ClarifyRetreat ==
    [action |-> "clarify_intent", search_keywords |-> sRetreat,
     project_data |-> [name |-> sMountain, type |-> sRetreatT]]

ClarifyNoKeywords ==
    [action |-> "clarify_intent",
     project_data |-> [name |-> sOcean, type |-> sAlbum]]

Intents == { ClarifyMoon, ClarifyRetreat, ClarifyNoKeywords }

Transcriptions == { sHeard }

CallbackData == { cbCancel, cbCreateNew, cbSelect(0), cbSelect(1), cbSelect(-1) }

\* minutes of the wall clock at which a note may be formatted
Minutes == { 7 }

NoTasks == [t \in {} |-> <<>>]

----------------------------------------------------------------------------
(* Serial dispatch: one update is handled to completion before the next *)

NoEvent == [kind |-> "init", user |-> "", intent |-> EmptyDict, transcription |-> <<>>,
            data |-> <<>>, reply |-> "", calls |-> <<>>,
            prev |-> [user |-> "", reply |-> "", intent |-> EmptyDict]]

InitWith(stores) ==
    /\ store \in stores
    /\ pending = [u \in {} |-> <<>>]
    /\ last = NoEvent
    /\ tasks = NoTasks
    /\ steps = 0

Init == InitWith(InitStores)

\* the update that was handled, what the user was told and the store requests
\* made, with a summary of the update handled before it
Event(kind, user_id, intent_analysis, transcription, callback_data, out) ==
    [kind |-> kind, user |-> user_id, intent |-> intent_analysis,
     transcription |-> transcription, data |-> callback_data,
     reply |-> out.reply, calls |-> out.calls,
     prev |-> [user |-> last.user, reply |-> last.reply, intent |-> last.intent]]

\* the state after a handler run with outcome `out`
Apply(out, ev) ==
    /\ store' = out.store
    /\ pending' = out.pending
    /\ last' = ev
    /\ steps' = steps + 1
    /\ UNCHANGED tasks

\* PeruquoisBot.handle_text_message
HandleTextMessage(user_id, intent_analysis, outs) ==
    /\ steps < MaxSteps
    /\ \E out \in outs :
          Apply(out, Event("text", user_id, intent_analysis, NoTranscription, <<>>, out))

\* PeruquoisBot.handle_voice_message, for a recognised voice message
HandleVoiceMessage(user_id, transcription, intent_analysis, outs) ==
    /\ steps < MaxSteps
    /\ \E out \in outs :
          Apply(out, Event("voice", user_id, intent_analysis, transcription, <<>>, out))

\* PeruquoisBot.handle_callback_query
HandleCallbackQuery(user_id, callback_data, outs) ==
    /\ steps < MaxSteps
    /\ \E out \in outs :
          Apply(out, Event("callback", user_id, EmptyDict, <<>>, callback_data, out))

Next ==
    \/ \E u \in SoloUsers, i \in Intents, m \in Minutes :
          HandleTextMessage(u, i,
              _process_text_message(store, pending, u, i, NoTranscription, m))
    \/ \E u \in SoloUsers, t \in Transcriptions, i \in Intents, m \in Minutes :
          HandleVoiceMessage(u, t, i, _process_text_message(store, pending, u, i, t, m))
    \/ \E u \in SoloUsers, d \in CallbackData, m \in Minutes :
          HandleCallbackQuery(u, d, handle_callback_query(store, pending, u, d, m))

Spec == Init /\ [][Next]_vars

----------------------------------------------------------------------------
(* Two chats served by the same bot, with a store that answers every request *)

InitShared == InitWith({StorePair})

\* the outcomes in which every store request was answered
Answered(outs) == { out \in outs : \A k \in 1..Len(out.calls) : out.calls[k].ok }

NextShared ==
    \/ \E u \in Users, i \in Intents, m \in Minutes :
          HandleTextMessage(u, i,
              Answered(_process_text_message(store, pending, u, i, NoTranscription, m)))
    \/ \E u \in Users, t \in Transcriptions, m \in Minutes :
          HandleVoiceMessage(u, t, ClarifyRetreat,
              Answered(_process_text_message(store, pending, u, ClarifyRetreat, t, m)))
    \/ \E u \in Users, d \in {cbCancel, cbCreateNew, cbSelect(0)}, m \in Minutes :
          HandleCallbackQuery(u, d,
              Answered(handle_callback_query(store, pending, u, d, m)))

SpecShared == InitShared /\ [][NextShared]_vars

----------------------------------------------------------------------------
(* Direct operations on the store: add_notes, update_status, archive_project *)
(* and create_project messages of one user                                   *)

MaxOps == 2

sPaused   == <<"P","a","u","s","e","d">>
sTired    == <<"t","i","r","e","d">>
sDone     == <<"d","o","n","e">>
sIdeaType == <<"i","d","e","a">>
sTwo      == <<"2">>

StoreOps == << Project(1, sMoonSong, sSong, sV1, <<>>),
               Project(2, sMountain, sRetreatT, <<>>, <<>>) >>

\* the first project carries as its name the text of the second one's page id
StoreNamedById == << Project(1, sTwo, sSong, <<>>, <<>>),
                     Project(2, sMountain, sRetreatT, sV1, <<>>) >>

AddNotesMoon ==
    [action |-> "add_notes", project_identifier |-> Lower(sMoonSong),
     additional_notes |-> sVerse, note_type |-> sIdeaType]

AddNotesRetreat ==
    [action |-> "add_notes", project_identifier |-> sRetreat,
     additional_notes |-> sVerse]

StatusMoon ==
    [action |-> "update_status", project_identifier |-> sMoon,
     new_status |-> sPaused, reason |-> sTired]

StatusTwo ==
    [action |-> "update_status", project_identifier |-> sTwo,
     new_status |-> sPaused, reason |-> sTired]

ArchiveMoon ==
    [action |-> "archive_project", project_identifier |-> sMoon, reason |-> sDone]

ArchiveRetreat ==
    [action |-> "archive_project", project_identifier |-> sRetreat]

CreateOcean ==
    [action |-> "create_project", project_data |-> [name |-> sOcean, type |-> sAlbum]]

CreateNoName ==
    [action |-> "create_project", project_data |-> [type |-> sSong, notes |-> sVerse]]

CreateNoData == [action |-> "create_project"]

OpsIntents == { AddNotesMoon, AddNotesRetreat, StatusMoon, StatusTwo,
                ArchiveMoon, ArchiveRetreat, CreateOcean, CreateNoName, CreateNoData }

InitOps == InitWith({StoreOps, StoreNamedById})

NextOps ==
    \/ \E u \in SoloUsers, i \in OpsIntents, m \in Minutes :
          /\ steps < MaxOps
          /\ HandleTextMessage(u, i,
                 _process_text_message(store, pending, u, i, NoTranscription, m))
    \/ \E u \in SoloUsers, t \in Transcriptions, m \in Minutes :
          /\ steps < MaxOps
          /\ HandleVoiceMessage(u, t, AddNotesMoon,
                 _process_text_message(store, pending, u, AddNotesMoon, t, m))

SpecOps == InitOps /\ [][NextOps]_vars

----------------------------------------------------------------------------
(* The lookup and the matcher applied to lists of projects: the store holds  *)
(* a list of distinct projects of the pool, and each step applies one of     *)
(* find_project_by_keywords, find_similar_projects and                       *)
(* _calculate_similarity_score to it.                                        *)

MaxProjects == 3

sNight     == <<"N","i","g","h","t">>
sZen       == <<"Z","e","n">>
sMoonNotes == <<"m","o","o","n"," ","r","e","t","r","e","a","t">>
sMoonHum   == <<"m","o","o","n"," ","h","u","m">>

PoolProjects ==
    { Project(1, sMoonSong, sSong, <<>>, <<>>),
      Project(2, sMoonCap, sRetreatT, <<>>, <<>>),
      Project(3, sSea, sAlbum, sMoonNotes, sMoonHum),
      Project(4, sMoonRit, sWorkshop, <<>>, <<>>),
      [Project(5, sZen, sSong, <<>>, <<>>) EXCEPT !.tags = <<sMoonCap, sNight>>] }

\* the lists of at most MaxProjects distinct projects of the pool
ProjectLists ==
    UNION { { l \in [1..n -> PoolProjects] :
                \A i, j \in 1..n : i # j => l[i] # l[j] } : n \in 0..MaxProjects }

KeywordStrings ==
    { sMoon, ToUpperSeq(sMoon), sSong, sRetreat, sMoonSong,
      <<"m","u","s","i","c">>, <<"m","o","o","n","l","i","g","h","t">>,
      <<"h","u","m">>, <<"n","i","g","h","t">>, <<"m","o">>, <<"z","z">> }

Limits == { 0, 1, 2, 5 }

InitMatch ==
    /\ store \in ProjectLists
    /\ pending = [u \in {} |-> <<>>]
    /\ last = NoEvent
    /\ tasks = NoTasks
    /\ steps = 0

\* the functions keep no state and leave the store alone, so one application
\* per list is every application
Applied(kind, keywords, limit, project, result) ==
    /\ last = NoEvent
    /\ last' = [kind |-> kind, data |-> keywords, limit |-> limit,
                project |-> project, result |-> result]
    /\ UNCHANGED <<store, pending, tasks, steps>>

\* find_project_by_keywords(keywords) on the list the store returns
FindByKeywords(keywords) ==
    Applied("lookup", keywords, 0, NoProject, find_project_by_keywords(store, keywords))

\* find_similar_projects(search_keywords, limit) on the list the store returns
FindSimilar(search_keywords, limit) ==
    Applied("similar", search_keywords, limit, NoProject,
            find_similar_projects(store, search_keywords, limit))

\* _calculate_similarity_score(project, keywords), with the keywords that
\* find_similar_projects passes for this keyword string
Score(i, search_keywords) ==
    Applied("score", search_keywords, 0, store[i],
            _calculate_similarity_score(store[i], Split(Lower(search_keywords))))

NextMatch ==
    \/ \E k \in KeywordStrings : FindByKeywords(k)
    \/ \E k \in KeywordStrings, limit \in Limits : FindSimilar(k, limit)
    \/ \E i \in 1..Len(store), k \in KeywordStrings : Score(i, k)

SpecMatch == InitMatch /\ [][NextMatch]_vars

----------------------------------------------------------------------------
(* A message from the intent extraction to the handler: the oracle's answer  *)
(* is an input, and each step handles one message.                           *)

MaxMsgs == 2

\* what _make_chat_request returned for the intent prompt: nothing (the call
\* failed), text that json.loads rejects, or the JSON text of an intent
NoResponse == [kind |-> "none", intent |-> EmptyDict]
Malformed == [kind |-> "text", intent |-> EmptyDict]
Json(intent) == [kind |-> "json", intent |-> intent]

\* Python's None and a dict, as values returned by analyze_intent
None == [is_dict |-> FALSE, value |-> EmptyDict]
Dict(d) == [is_dict |-> TRUE, value |-> d]

\* OpenAIAPI.analyze_intent, for the response its chat request got
analyze_intent(response) ==
    IF response.kind = "json" THEN Dict(response.intent) ELSE None

\* OpenAIAPI.enhanced_intent_analysis: `response` answers its call of
\* analyze_intent; None.get raises AttributeError and the except clause calls
\* analyze_intent a second time, answered by `again`; priority is what
\* analyze_optimal_columns reports for a create_project
enhanced_intent_analysis(response, again, priority) ==
    LET intent_analysis == analyze_intent(response)
    IN  IF ~intent_analysis.is_dict
        THEN [result |-> analyze_intent(again), invocations |-> 2]
        ELSE IF Get(intent_analysis.value, "action", "") = "create_project"
        THEN [result |->
                Dict(Put(Put(intent_analysis.value,
                             "column_analysis", [priority |-> priority]),
                         "should_create_columns", priority \in {"high", "medium"})),
              invocations |-> 1]
        ELSE [result |-> intent_analysis, invocations |-> 1]

\* PeruquoisBot._process_text_message from its first line: the outcomes of
\* the handler for the intent that the extraction returned
ProcessText(st, pend, user_id, extraction, original_transcription, m) ==
    IF ~extraction.result.is_dict
    THEN { Outcome(st, pend, "not_understood", <<>>) }
    ELSE _process_text_message(st, pend, user_id, extraction.result.value,
                               original_transcription, m)

sBlue == <<"B","l","u","e">>

InfoRename ==
    [action |-> "update_project_info", project_identifier |-> sMoon,
     updates |-> [name |-> sOcean, type |-> sAlbum]]

InfoTags ==
    [action |-> "update_project_info", project_identifier |-> sMoon,
     updates |-> [tags |-> <<sNight>>]]

InfoStatus ==
    [action |-> "update_project_info", project_identifier |-> sRetreat,
     updates |-> [type |-> sWorkshop, status |-> sPaused]]

InfoNoUpdates ==
    [action |-> "update_project_info", project_identifier |-> sMoon,
     updates |-> EmptyDict]

InfoUnknown ==
    [action |-> "update_project_info", project_identifier |-> sBlue,
     updates |-> [name |-> sOcean]]

LegacyMoonSong ==
    [action |-> "update_project", project_name |-> sMoonSong, new_status |-> sPaused]

LegacyTwo ==
    [action |-> "update_project", project_name |-> sTwo, new_status |-> sPaused]

LegacyUnknown ==
    [action |-> "update_project", project_name |-> sBlue, new_status |-> sPaused]

LegacyNoStatus == [action |-> "update_project", project_name |-> sMoonSong]

QueryByStatus ==
    [action |-> "query_projects", query_type |-> "by_status",
     filters |-> [status |-> sPaused]]

QueryByType ==
    [action |-> "query_projects", query_type |-> "by_type",
     filters |-> [type |-> sSong]]

QueryAll == [action |-> "query_projects", query_type |-> "all"]

StatusUnknown ==
    [action |-> "update_status", project_identifier |-> sBlue, new_status |-> sPaused]

StatusNoStatus == [action |-> "update_status", project_identifier |-> sMoon]

AddNotesUnknown ==
    [action |-> "add_notes", project_identifier |-> sBlue, additional_notes |-> sVerse]

AddNotesNoNotes ==
    [action |-> "add_notes", project_identifier |-> sMoon, additional_notes |-> <<>>]

ArchiveUnknown == [action |-> "archive_project", project_identifier |-> sBlue]

ArchiveNoIdentifier == [action |-> "archive_project", reason |-> sDone]

GeneralChat == [action |-> "general_chat", message |-> sMoon]

UnknownAction == [action |-> "sing"]

MsgIntents ==
    { InfoRename, InfoTags, InfoStatus, InfoNoUpdates, InfoUnknown,
      LegacyMoonSong, LegacyTwo, LegacyUnknown, LegacyNoStatus,
      QueryByStatus, QueryByType, QueryAll,
      StatusMoon, StatusUnknown, StatusNoStatus,
      AddNotesMoon, AddNotesUnknown, AddNotesNoNotes,
      ArchiveMoon, ArchiveUnknown, ArchiveNoIdentifier,
      ClarifyMoon, CreateOcean, GeneralChat, UnknownAction, EmptyDict }

\* the answers of the oracle to the first intent prompt of a message
Responses == { NoResponse, Malformed } \cup { Json(i) : i \in MsgIntents }

\* its answers to a second intent prompt for the same message
SecondResponses == { NoResponse, Json(AddNotesMoon) }

ColumnPriorities == { "low", "high" }

InitMsgs == InitWith({ <<>>, StoreOps, StoreNamedById })

\* the message handled, with the oracle's first answer, the number of times
\* analyze_intent was invoked and the changes the reply lists
MsgEvent(kind, user_id, response, extraction, transcription, out) ==
    Event(kind, user_id, extraction.result.value, transcription, <<>>, out)
      @@ [response |-> response.kind,
          invocations |-> extraction.invocations,
          changes |-> IF "changes" \in DOMAIN out THEN out.changes ELSE <<>>]

\* handle_text_message (original_transcription is None) and
\* handle_voice_message, from the intent extraction on
HandleMessage(kind, user_id, response, extraction, transcription, outs) ==
    /\ steps < MaxMsgs
    /\ \E out \in outs :
          Apply(out, MsgEvent(kind, user_id, response, extraction, transcription, out))

\* the second answer matters only when the first gave no intent, and the
\* column analysis is only asked for a create_project
SecondFor(response) ==
    IF response.kind = "json" THEN { NoResponse } ELSE SecondResponses

PrioritiesFor(response) ==
    IF Get(response.intent, "action", "") = "create_project"
    THEN ColumnPriorities ELSE { "low" }

NextMsgs ==
    \/ \E u \in SoloUsers, r \in Responses, m \in Minutes :
          \E a \in SecondFor(r), c \in PrioritiesFor(r) :
             LET extraction == enhanced_intent_analysis(r, a, c)
             IN  HandleMessage("text", u, r, extraction, NoTranscription,
                     ProcessText(store, pending, u, extraction, NoTranscription, m))
    \/ \E u \in SoloUsers, r \in { Malformed, Json(AddNotesUnknown), Json(InfoRename) },
          t \in Transcriptions, m \in Minutes :
          \E a \in SecondFor(r), c \in PrioritiesFor(r) :
             LET extraction == enhanced_intent_analysis(r, a, c)
             IN  HandleMessage("voice", u, r, extraction, t,
                     ProcessText(store, pending, u, extraction, t, m))

SpecMsgs == InitMsgs /\ [][NextMsgs]_vars

----------------------------------------------------------------------------
(* handle_callback_query as the coroutine it is.  Each delivery of a        *)
(* callback is a task; a task runs from one await to the next without       *)
(* interruption, and tasks take turns at the awaits (the transport calls    *)
(* query.answer and edit_message_text, and the requests to the store).      *)
(* The handler holds no lock, so nothing in it orders two tasks.            *)

MaxTasks == 2

NoContext == Context(EmptyDict, <<>>, <<>>)

\* a task at its first await, query.answer() (main.py:574)
NewTask(user_id, callback_data) ==
    [user |-> user_id, data |-> callback_data, pc |-> "answer", ctx |-> NoContext,
     project_name |-> <<>>, id |-> 0, properties |-> EmptyDict,
     reply |-> "", calls |-> <<>>]

\* the task moves to its next await
Goto(t, pc, reply, calls) ==
    [tasks EXCEPT ![t].pc = pc, ![t].reply = reply, ![t].calls = calls]

\* an update with a callback query arrives and its handler is started
Deliver(user_id, callback_data) ==
    /\ Len(tasks) < MaxTasks
    /\ tasks' = Append(tasks, NewTask(user_id, callback_data))
    /\ UNCHANGED <<store, pending, last, steps>>

\* main.py:576-608: after query.answer(), up to the next edit_message_text
CheckSession(t) ==
    LET task == tasks[t]
        ctx == pending[task.user]
        parsed == ParseInt(LastPiece(task.data, <<>>))
        at == PyIndex(parsed.val, Len(ctx.similar_projects))
    IN  /\ task.pc = "answer"
        /\ tasks' =
             IF task.user \notin DOMAIN pending
             THEN Goto(t, "done", "expired", <<>>)
             ELSE IF task.data = cbCancel
             THEN [Goto(t, "cancel", "", <<>>) EXCEPT ![t].ctx = ctx]
             ELSE IF task.data = cbCreateNew
             THEN [Goto(t, "create", "", <<>>) EXCEPT ![t].ctx = ctx]
             ELSE IF ~StartsWith(task.data, cbSelectPfx)
             THEN Goto(t, "done", "none", <<>>)
             ELSE IF ~parsed.ok
             THEN Goto(t, "done", "error", <<>>)
             ELSE IF ~IndexAccepted(parsed.val, ctx.similar_projects)
             THEN Goto(t, "done", "invalid_selection", <<>>)
             ELSE IF at = 0
             THEN Goto(t, "done", "error", <<>>)
             ELSE [Goto(t, "select", "", <<>>) EXCEPT
                      ![t].ctx = ctx,
                      ![t].project_name = ctx.similar_projects[at].name]
        /\ UNCHANGED <<store, pending, last, steps>>

\* del self._pending_contexts[user_id]: KeyError when the entry is gone, which
\* the handler's except clause turns into the error message (main.py:640-642)
DeletePending(t, pc, reply) ==
    /\ tasks[t].pc = pc
    /\ IF tasks[t].user \in DOMAIN pending
       THEN /\ pending' = Del(pending, tasks[t].user)
            /\ tasks' = Goto(t, "done", reply, tasks[t].calls)
       ELSE /\ pending' = pending
            /\ tasks' = Goto(t, "done", "error", tasks[t].calls)
    /\ UNCHANGED <<store, last, steps>>

\* main.py:590-592, after "Operation cancelled." was sent
CancelDelete(t) == DeletePending(t, "cancel", "cancelled")

\* main.py:596-597: _handle_create_project with the captured intent, up to
\* the message that reports its result
CreateProject(t) ==
    /\ tasks[t].pc = "create"
    /\ \E o \in _handle_create_project(store, pending, tasks[t].ctx.intent_analysis,
                                       tasks[t].ctx.original_transcription) :
          /\ store' = o.store
          /\ tasks' = Goto(t, "create_del", o.reply, o.calls)
    /\ UNCHANGED <<pending, last, steps>>

\* main.py:598
CreateDelete(t) == DeletePending(t, "create_del", tasks[t].reply)

\* main.py:610-629 and notion_api.py:194-240: add_notes_to_project up to its
\* PATCH request, with the project as get_all_projects returned it
SelectRead(t, m) ==
    /\ tasks[t].pc = "select"
    /\ \E read \in get_all_projects(store) :
          LET project == find_project_by_keywords(read.projects, tasks[t].project_name)
              properties ==
                  NotesProperties(project,
                      SelectionUpdateData(tasks[t].ctx.intent_analysis,
                                          tasks[t].ctx.original_transcription), m)
          IN  tasks' =
                IF project = NoProject
                THEN Goto(t, "select_del", "notes_failed", <<QueryCall(read.ok)>>)
                ELSE IF properties = EmptyDict
                THEN Goto(t, "select_del", "notes_added", <<QueryCall(read.ok)>>)
                ELSE [Goto(t, "patch", "", <<QueryCall(read.ok)>>) EXCEPT
                         ![t].id = project.id, ![t].properties = properties]
    /\ UNCHANGED <<store, pending, last, steps>>

\* notion_api.py:242-252 and main.py:631-634: the PATCH request is answered
SelectPatch(t) ==
    /\ tasks[t].pc = "patch"
    /\ \E ok \in BOOLEAN :
          /\ store' = IF ok THEN StorePatch(store, tasks[t].id, tasks[t].properties)
                      ELSE store
          /\ tasks' = Goto(t, "select_del",
                           IF ok THEN "notes_added" ELSE "notes_failed",
                           Append(tasks[t].calls,
                                  PatchCall(tasks[t].id, tasks[t].properties, ok)))
    /\ UNCHANGED <<pending, last, steps>>

\* main.py:636
SelectDelete(t) == DeletePending(t, "select_del", tasks[t].reply)

\* the keyboard is shown by a clarify_intent message handled before any of
\* its buttons is pressed
NextConc ==
    \/ \E u \in SoloUsers, i \in {ClarifyMoon, ClarifyRetreat}, m \in Minutes :
          /\ tasks = <<>>
          /\ HandleTextMessage(u, i,
                 Answered(_process_text_message(store, pending, u, i, NoTranscription, m)))
    \/ \E u \in SoloUsers, d \in {cbCancel, cbCreateNew, cbSelect(0)} : Deliver(u, d)
    \/ \E t \in DOMAIN tasks : CheckSession(t)
    \/ \E t \in DOMAIN tasks : CancelDelete(t)
    \/ \E t \in DOMAIN tasks : CreateProject(t)
    \/ \E t \in DOMAIN tasks : CreateDelete(t)
    \/ \E t \in DOMAIN tasks, m \in Minutes : SelectRead(t, m)
    \/ \E t \in DOMAIN tasks : SelectPatch(t)
    \/ \E t \in DOMAIN tasks : SelectDelete(t)

SpecConc == InitWith({StorePair}) /\ [][NextConc]_vars

----------------------------------------------------------------------------
(* Note-adding operations as coroutines: an add_notes message, from the     *)
(* handler's lookup to the PATCH request of add_notes_to_project, beside    *)
(* another one or beside a selection of the disambiguation keyboard.        *)

AddNotesHeard ==
    [action |-> "add_notes", project_identifier |-> sMoon,
     additional_notes |-> sHeard]

\* a task for an add_notes message, at the await of the handler's
\* find_project_by_keywords (main.py:397)
NewNotesTask(user_id, intent_analysis, original_transcription) ==
    [user |-> user_id, data |-> <<>>, pc |-> "lookup",
     ctx |-> Context(intent_analysis, original_transcription, <<>>),
     project_name |-> <<>>, id |-> 0, properties |-> EmptyDict,
     reply |-> "", calls |-> <<>>]

\* an add_notes message arrives, its intent is extracted and
\* _handle_add_notes is started (main.py:381-395)
StartAddNotes(user_id, intent_analysis) ==
    /\ Len(tasks) < MaxTasks
    /\ tasks' = Append(tasks,
           IF ~Truthy(Get(intent_analysis, "project_identifier", <<>>))
              \/ ~Truthy(Get(intent_analysis, "additional_notes", <<>>))
           THEN [NewNotesTask(user_id, intent_analysis, NoTranscription)
                    EXCEPT !.pc = "done", !.reply = "not_specified"]
           ELSE NewNotesTask(user_id, intent_analysis, NoTranscription))
    /\ UNCHANGED <<store, pending, last, steps>>

\* main.py:397-400: the handler's lookup is answered
NotesLookup(t) ==
    /\ tasks[t].pc = "lookup"
    /\ \E read \in get_all_projects(store) :
          LET project == find_project_by_keywords(read.projects,
                             tasks[t].ctx.intent_analysis["project_identifier"])
          IN  tasks' =
                IF project = NoProject
                THEN Goto(t, "done", "not_found", <<QueryCall(read.ok)>>)
                ELSE [Goto(t, "notes_read", "", <<QueryCall(read.ok)>>) EXCEPT
                         ![t].project_name = project.name]
    /\ UNCHANGED <<store, pending, last, steps>>

\* update_data built at main.py:403-410
MessageUpdateData(intent_analysis, original_transcription) ==
    LET u1 == IF Truthy(original_transcription)
              THEN Put(EmptyDict, "original_audio", original_transcription)
              ELSE EmptyDict
    IN  Put(Put(u1, "additional_notes", intent_analysis["additional_notes"]),
            "note_type", Get(intent_analysis, "note_type", sUpdate))

\* main.py:412 and notion_api.py:194-240: add_notes_to_project up to its PATCH
\* request, with the project as its own get_all_projects returned it
NotesRead(t, m) ==
    /\ tasks[t].pc = "notes_read"
    /\ \E read \in get_all_projects(store) :
          LET project == find_project_by_keywords(read.projects,
                             tasks[t].ctx.intent_analysis["project_identifier"])
              properties ==
                  NotesProperties(project,
                      MessageUpdateData(tasks[t].ctx.intent_analysis,
                                        tasks[t].ctx.original_transcription), m)
          IN  tasks' =
                IF project = NoProject
                THEN Goto(t, "done", "notes_failed",
                          Append(tasks[t].calls, QueryCall(read.ok)))
                ELSE [Goto(t, "notes_patch", "",
                           Append(tasks[t].calls, QueryCall(read.ok))) EXCEPT
                         ![t].id = project.id, ![t].properties = properties]
    /\ UNCHANGED <<store, pending, last, steps>>

\* notion_api.py:242-252 and main.py:414-417: the PATCH request is answered
NotesPatch(t) ==
    /\ tasks[t].pc = "notes_patch"
    /\ \E ok \in BOOLEAN :
          /\ store' = IF ok THEN StorePatch(store, tasks[t].id, tasks[t].properties)
                      ELSE store
          /\ tasks' = Goto(t, "done",
                           IF ok THEN "notes_added" ELSE "notes_failed",
                           Append(tasks[t].calls,
                                  PatchCall(tasks[t].id, tasks[t].properties, ok)))
    /\ UNCHANGED <<pending, last, steps>>

NextRace ==
    \/ \E u \in SoloUsers, m \in Minutes :
          /\ tasks = <<>>
          /\ HandleTextMessage(u, ClarifyMoon,
                 Answered(_process_text_message(store, pending, u, ClarifyMoon,
                                                NoTranscription, m)))
    \/ \E u \in SoloUsers : Deliver(u, cbSelect(0))
    \/ \E t \in DOMAIN tasks : CheckSession(t)
    \/ \E t \in DOMAIN tasks, m \in Minutes : SelectRead(t, m)
    \/ \E t \in DOMAIN tasks : SelectPatch(t)
    \/ \E t \in DOMAIN tasks : SelectDelete(t)
    \/ \E u \in SoloUsers, i \in {AddNotesMoon, AddNotesHeard} : StartAddNotes(u, i)
    \/ \E t \in DOMAIN tasks : NotesLookup(t)
    \/ \E t \in DOMAIN tasks, m \in Minutes : NotesRead(t, m)
    \/ \E t \in DOMAIN tasks : NotesPatch(t)

SpecRace == InitWith({StoreOps}) /\ [][NextRace]_vars

----------------------------------------------------------------------------
(* The keyboards in the chat.  A keyboard sent by _handle_clarify_intent     *)
(* stays in the chat with its buttons; in this specification `tasks` lists  *)
(* the keyboards sent so far, and a callback is the press of a button of    *)
(* one of them.  The callback data names no keyboard (main.py:527-532).     *)

StoreTrio == << Project(1, sMoonSong, sSong, <<>>, <<>>),
                Project(2, sMoonRit, sWorkshop, <<>>, <<>>),
                Project(3, sMountain, sRetreatT, sV1, <<>>) >>

\* the keyboard built at main.py:523-532 for these candidates
Keyboard(user_id, intent_analysis, original_transcription, similar_projects) ==
    [user |-> user_id,
     ctx |-> Context(intent_analysis, original_transcription, similar_projects),
     buttons |-> { cbSelect(i) : i \in 0..(Len(similar_projects) - 1) }
                    \cup { cbCreateNew, cbCancel }]

\* a clarify_intent message is handled; when it ends with a keyboard, the
\* keyboard joins the chat
ClarifyMessage(kind, user_id, intent_analysis, transcription, outs) ==
    /\ steps < MaxSteps
    /\ \E out \in outs :
          /\ store' = out.store
          /\ pending' = out.pending
          /\ last' = Event(kind, user_id, intent_analysis, transcription, <<>>, out)
                       @@ [keyboard |-> 0]
          /\ steps' = steps + 1
          /\ tasks' = IF out.reply = "clarify_keyboard"
                      THEN Append(tasks,
                               Keyboard(user_id, intent_analysis, transcription,
                                   find_similar_projects(store,
                                       intent_analysis["search_keywords"], 5)))
                      ELSE tasks

\* a button of keyboard k is pressed and handle_callback_query handles it
PressButton(k, callback_data, outs) ==
    /\ steps < MaxSteps
    /\ callback_data \in tasks[k].buttons
    /\ \E out \in outs :
          /\ store' = out.store
          /\ pending' = out.pending
          /\ last' = Event("callback", tasks[k].user, EmptyDict, <<>>, callback_data, out)
                       @@ [keyboard |-> k]
          /\ steps' = steps + 1
          /\ UNCHANGED tasks

NextKeys ==
    \/ \E u \in SoloUsers, i \in {ClarifyMoon, ClarifyRetreat}, m \in Minutes :
          ClarifyMessage("text", u, i, NoTranscription,
              _process_text_message(store, pending, u, i, NoTranscription, m))
    \/ \E u \in SoloUsers, t \in Transcriptions, m \in Minutes :
          ClarifyMessage("voice", u, ClarifyRetreat, t,
              _process_text_message(store, pending, u, ClarifyRetreat, t, m))
    \/ \E k \in DOMAIN tasks, d \in CallbackData, m \in Minutes :
          PressButton(k, d, handle_callback_query(store, pending, tasks[k].user, d, m))

InitKeys ==
    /\ store = StoreTrio
    /\ pending = [u \in {} |-> <<>>]
    /\ last = NoEvent @@ [keyboard |-> 0]
    /\ tasks = <<>>
    /\ steps = 0

SpecKeys == InitKeys /\ [][NextKeys]_vars

----------------------------------------------------------------------------
(* The disambiguation session: what one handled update does to the store    *)
(* and to the pending contexts.  In a step, the unprimed variables are the  *)
(* state the handler found and last' describes the update it handled.       *)

\* the record with this id, NoProject when the store holds none
Record(st, id) ==
    IF id \in Ids(st) THEN st[CHOOSE k \in 1..Len(st) : st[k].id = id] ELSE NoProject

\* the ids whose record differs between two contents of the store
Touched(before, after) ==
    { id \in Ids(before) \cup Ids(after) : Record(before, id) # Record(after, id) }

\* the properties a create request carries for this intent and transcript
CreateProperties(intent_analysis, transcription) ==
    LET project_data == Get(intent_analysis, "project_data", EmptyDict)
    IN  [k \in {"Name"} \cap (IF "name" \in DOMAIN project_data THEN {"Name"} ELSE {})
            |-> project_data["name"]]
        @@ [k \in {"Type"} \cap (IF "type" \in DOMAIN project_data THEN {"Type"} ELSE {})
            |-> project_data["type"]]
        @@ [k \in {"Processed Notes"}
                  \cap (IF "notes" \in DOMAIN project_data THEN {"Processed Notes"} ELSE {})
            |-> project_data["notes"]]
        @@ [k \in {"Original Audio"}
                  \cap (IF transcription # <<>> THEN {"Original Audio"} ELSE {})
            |-> transcription]

\* the step handled a callback of a user who was awaiting a selection
FromAwaiting == last'.kind = "callback" /\ last'.user \in DOMAIN pending

Candidates == pending[last'.user].similar_projects

\* the step handled "select_project_<i>" from AwaitingSelection, i an integer
SelectStep ==
    /\ FromAwaiting
    /\ StartsWith(last'.data, cbSelectPfx)
    /\ ParseInt(LastPiece(last'.data, <<>>)).ok

SelectedIndex == ParseInt(LastPiece(last'.data, <<>>)).val

ValidSelectStep == SelectStep /\ 0 <= SelectedIndex /\ SelectedIndex < Len(Candidates)

\* the step handled a clarify_intent message
ClarifyStep ==
    /\ last'.kind \in {"text", "voice"}
    /\ Get(last'.intent, "action", "") = "clarify_intent"

ClarifyKeywords == Get(last'.intent, "search_keywords", <<>>)

\* what the matcher returned to the clarify handler in the step: the store
\* request it starts with is the first call of the step
MatcherResult ==
    IF ClarifyKeywords = <<>> \/ ~last'.calls[1].ok THEN <<>>
    ELSE find_similar_projects(store, ClarifyKeywords, 5)

\* the store requests of a task that changed the store
StoreWrites(t) ==
    Cardinality({ k \in 1..Len(tasks[t].calls) :
                    tasks[t].calls[k].op \in {"patch", "create"} /\ tasks[t].calls[k].ok })

SelectionHitsCandidate ==
    [][ ValidSelectStep =>
          /\ Touched(store, store') \subseteq { Candidates[SelectedIndex + 1].id }
          /\ last'.user \notin DOMAIN pending' ]_vars

\* C3: from AwaitingSelection, select_project_i with i outside
\* 0 <= i < len(candidates) gives the invalid-selection message, makes no store
\* request and leaves the store and the pending contexts as they were.
InvalidIndexRejected ==
    [][ (SelectStep /\ ~ValidSelectStep) =>
          /\ last'.reply = "invalid_selection"
          /\ last'.calls = <<>>
          /\ store' = store
          /\ pending' = pending ]_vars

\* C4: a callback of a user with no pending disambiguation gives the expiry
\* message (not the error message), makes no store request and leaves the
\* store and the pending contexts unchanged.
NoPendingExpires ==
    [][ (last'.kind = "callback" /\ last'.user \notin DOMAIN pending) =>
          /\ last'.reply = "expired"
          /\ last'.calls = <<>>
          /\ store' = store
          /\ pending' = pending ]_vars

\* a second cancel, sent after the first one cleared the state, expired
SecondCancelExpired ==
    /\ last.kind = "callback" /\ last.data = cbCancel /\ last.reply = "expired"
    /\ last.prev.user = last.user /\ last.prev.reply = "cancelled"
    /\ last.user \notin DOMAIN pending

\* C5: every valid selection whose store requests are all answered makes the
\* notes of a stored project with the selected candidate's name grow, and
\* returns the user to NoPending.
ValidSelectionAppendsNote ==
    [][ (ValidSelectStep /\ \A k \in 1..Len(last'.calls) : last'.calls[k].ok) =>
          /\ \E id \in Ids(store) :
                /\ Record(store, id).name = Candidates[SelectedIndex + 1].name
                /\ Len(Record(store', id).notes) > Len(Record(store, id).notes)
          /\ last'.user \notin DOMAIN pending' ]_vars

\* C6: from AwaitingSelection, create_new makes exactly one store request, a
\* create carrying the project_data of the pending intent (and the pending
\* transcript), adds that one record when the request succeeds and nothing
\* otherwise, and leaves the user in NoPending either way.
CreateNewUsesPendingIntent ==
    [][ (FromAwaiting /\ last'.data = cbCreateNew) =>
          LET ctx == pending[last'.user]
              properties == CreateProperties(ctx.intent_analysis,
                                             ctx.original_transcription)
          IN  /\ last'.calls = << CreateCall(properties, last'.calls[1].ok) >>
              /\ IF last'.calls[1].ok
                 THEN /\ Touched(store, store') = { NextId(store) }
                      /\ Record(store', NextId(store)) =
                            _parse_project_from_page(NextId(store), properties)
                 ELSE store' = store
              /\ pending' = Del(pending, last'.user) ]_vars

\* a create_new whose create request failed left the user in NoPending
CreateNewFailedCleared ==
    /\ last.kind = "callback" /\ last.data = cbCreateNew
    /\ last.reply = "create_failed"
    /\ last.prev.user = last.user /\ last.prev.reply = "clarify_keyboard"
    /\ last.user \notin DOMAIN pending

\* C7: from AwaitingSelection, cancel removes the user's pending context, makes
\* no store request and leaves the store and every other user's pending
\* context unchanged.
CancelFrame ==
    [][ (FromAwaiting /\ last'.data = cbCancel) =>
          /\ pending' = Del(pending, last'.user)
          /\ last'.calls = <<>>
          /\ store' = store ]_vars

\* a user cancelled while another user was awaiting a selection
CancelledBesideOther ==
    /\ last.kind = "callback" /\ last.data = cbCancel /\ last.reply = "cancelled"
    /\ last.user \notin DOMAIN pending
    /\ \E v \in DOMAIN pending : v # last.user

\* C8: a clarify_intent with search_keywords for which the matcher returns at
\* least one candidate stores the intent, the transcript and the candidates
\* under the user, between 1 and 5 candidates (exactly one, 'Mountain Retreat',
\* for 'retreat' against a store holding only that project), and changes
\* nothing in the store.
ClarifyStoresContext ==
    [][ (ClarifyStep /\ MatcherResult # <<>>) =>
          /\ last'.user \in DOMAIN pending'
          /\ pending'[last'.user].intent_analysis = last'.intent
          /\ pending'[last'.user].original_transcription = last'.transcription
          /\ pending'[last'.user].similar_projects = MatcherResult
          /\ Len(pending'[last'.user].similar_projects) \in 1..5
          /\ (ClarifyKeywords = sRetreat /\ store = StoreRetreat) =>
                /\ Len(pending'[last'.user].similar_projects) = 1
                /\ pending'[last'.user].similar_projects[1].name = sMountain
          /\ last'.reply = "clarify_keyboard"
          /\ store' = store ]_vars

\* a disambiguation was entered with the full five candidates, out of six matches
FiveCandidatesPending ==
    /\ last.reply = "clarify_keyboard"
    /\ last.user \in DOMAIN pending
    /\ Len(pending[last.user].similar_projects) = 5
    /\ Len(store) = 6

\* C9: a user has one pending context at most, and a clarify_intent that
\* enters disambiguation while the user already has one replaces it: intent,
\* transcript and candidates are those of the newer message, and the other
\* users' contexts stay as they were.
NewClarifyReplacesPending ==
    [][ (ClarifyStep /\ last'.reply = "clarify_keyboard"
                     /\ last'.user \in DOMAIN pending) =>
          /\ DOMAIN pending' = DOMAIN pending
          /\ pending'[last'.user] =
                Context(last'.intent, last'.transcription, MatcherResult)
          /\ \A v \in DOMAIN pending \ {last'.user} : pending'[v] = pending[v] ]_vars

\* a clarify_intent entered disambiguation right after another one of the same
\* user, with another intent and other candidates
PendingReplaced ==
    /\ last.reply = "clarify_keyboard"
    /\ last.prev.user = last.user /\ last.prev.reply = "clarify_keyboard"
    /\ last.prev.intent # last.intent
    /\ pending[last.user].intent_analysis = last.intent
    /\ pending[last.user].similar_projects # <<>>

\* C10: a clarify_intent without search_keywords, or for which the matcher
\* returns no candidate, ends with one create request carrying the intent's
\* project_data and the transcript, and leaves the pending contexts as they
\* were.
ClarifyFallsBackToCreate ==
    [][ (ClarifyStep /\ MatcherResult = <<>>) =>
          LET properties == CreateProperties(last'.intent, last'.transcription)
              create == last'.calls[Len(last'.calls)]
          IN  /\ last'.calls # <<>>
              /\ create = CreateCall(properties, create.ok)
              /\ \A k \in 1..(Len(last'.calls) - 1) : last'.calls[k].op = "query"
              /\ last'.reply = IF create.ok THEN "created" ELSE "create_failed"
              /\ IF create.ok
                 THEN /\ Touched(store, store') = { NextId(store) }
                      /\ Record(store', NextId(store)) =
                            _parse_project_from_page(NextId(store), properties)
                 ELSE store' = store
              /\ pending' = pending ]_vars

\* a user awaiting a selection sent a clarify_intent without keywords: the
\* project was created and the user is still awaiting the selection
FallbackWhilePending ==
    /\ last.kind \in {"text", "voice"}
    /\ Get(last.intent, "action", "") = "clarify_intent"
    /\ Get(last.intent, "search_keywords", <<>>) = <<>>
    /\ last.reply = "created"
    /\ last.prev.user = last.user /\ last.prev.reply = "clarify_keyboard"
    /\ last.user \in DOMAIN pending

----------------------------------------------------------------------------
(* Direct operations: notes, status, archive, create *)

\* the step handled a message whose intent has this action
MessageStep(action) ==
    /\ last'.kind \in {"text", "voice"}
    /\ Get(last'.intent, "action", "") = action

\* the handler's lookup in the step was answered and resolved the identifier
IdentifierOf(intent) == Get(intent, "project_identifier", <<>>)

ResolvedProject == find_project_by_keywords(store, IdentifierOf(last'.intent))

Resolved ==
    /\ IdentifierOf(last'.intent) # <<>>
    /\ last'.calls # <<>> /\ last'.calls[1].ok
    /\ ResolvedProject # NoProject

\* the patch requests among some store requests, in order
IsPatch(call) == call.op = "patch"

Patches(calls) == SelectSeq(calls, IsPatch)

\* the title-cased note type of the intents that carry notes
NoteTypeShown(intent) ==
    IF "note_type" \notin DOMAIN intent THEN <<"U","p","d","a","t","e">>
    ELSE IF intent["note_type"] = sIdeaType THEN <<"I","d","e","a">>
    ELSE <<"?">>

\* C11: an add_notes operation that succeeds writes, as the notes of the
\* project, the old notes followed by "\n\n" and the segment
\* "[<timestamp>] <NoteType>: <additional_notes>" when the old notes are
\* non-empty, and the segment alone when they are empty.
NotesAppendedWithPrefix ==
    [][ (MessageStep("add_notes") /\ last'.reply = "notes_added") =>
          \E m \in Minutes :
             LET id == ResolvedProject.id
                 old == Record(store, id).notes
                 segment == <<"[">> \o Strftime(m) \o <<"]", " ">>
                               \o NoteTypeShown(last'.intent) \o <<":", " ">>
                               \o last'.intent["additional_notes"]
             IN  /\ Record(store', id).notes =
                       IF old # <<>> THEN old \o <<"\n", "\n">> \o segment ELSE segment
                 /\ SubSeq(Record(store', id).notes, 1, Len(old)) = old ]_vars

\* a note of type 'idea' was appended to notes that were not empty
NoteAppendedToOldNotes ==
    /\ last.kind \in {"text", "voice"} /\ last.intent = AddNotesMoon
    /\ last.reply = "notes_added"
    /\ \E i \in 1..Len(store) :
          /\ store[i].id = 1
          /\ SubSeq(store[i].notes, 1, Len(sV1) + 2) = sV1 \o <<"\n", "\n">>
          /\ Contains(<<"I","d","e","a",":"," ">> \o sVerse, store[i].notes)

\* C12: an update_status whose identifier resolves to project P issues one
\* patch addressed to P's store id and, when that patch succeeds, sets P's
\* status to new_status, changes nothing else in the store and reports
\* success.
StatusSetById ==
    [][ (MessageStep("update_status") /\ Resolved
           /\ Get(last'.intent, "new_status", <<>>) # <<>>) =>
          LET P == ResolvedProject
              patches == Patches(last'.calls)
          IN  /\ Len(patches) = 1
              /\ patches[1].id = P.id
              /\ patches[1].ok =>
                    /\ Record(store', P.id) =
                          [Record(store, P.id) EXCEPT !.status = last'.intent["new_status"]]
                    /\ Touched(store, store') \subseteq {P.id}
                    /\ last'.reply = "status_updated" ]_vars

\* C13: an update_status that carries a reason and reports success leaves the
\* reason text in the notes of the resolved project.
StatusReasonNoted ==
    [][ (MessageStep("update_status") /\ Resolved
           /\ Get(last'.intent, "reason", <<>>) # <<>>
           /\ last'.reply = "status_updated") =>
          Contains(last'.intent["reason"], Record(store', ResolvedProject.id).notes) ]_vars

\* C14: a create_project whose project_data carries no status issues one
\* create request with the status 'Idea' and, when the request succeeds, the
\* new record has the status 'Idea' and success is reported.
CreateDefaultsToIdea ==
    [][ (MessageStep("create_project")
           /\ "status" \notin DOMAIN Get(last'.intent, "project_data", EmptyDict)) =>
          /\ Len(last'.calls) = 1
          /\ last'.calls[1].op = "create"
          /\ Get(last'.calls[1].properties, "Status", <<>>) = sIdea
          /\ last'.calls[1].ok =>
                /\ Record(store', NextId(store)).status = sIdea
                /\ last'.reply = "created" ]_vars

\* C15: every project in the store has a non-empty name, also after a create
\* whose project_data omits the name or is missing.
NamesNeverEmpty == \A i \in 1..Len(store) : store[i].name # <<>>

\* C20: an archive_project with a reason on a resolvable project patches the
\* status of the resolved project to 'Archived' first and then, only when that
\* patch succeeded, patches the same project's notes with the reason text;
\* success is reported exactly when the status patch succeeded.
ArchivePatchesInOrder ==
    [][ (MessageStep("archive_project") /\ Resolved
           /\ Get(last'.intent, "reason", <<>>) # <<>>) =>
          LET P == ResolvedProject
              patches == Patches(last'.calls)
              answered == \A k \in 1..Len(last'.calls) :
                              last'.calls[k].op = "query" => last'.calls[k].ok
          IN  /\ Len(patches) <= 2
              /\ last'.calls[2].ok =>
                    /\ Len(patches) >= 1
                    /\ patches[1].id = P.id
                    /\ patches[1].properties = [k \in {"Status"} |-> sArchived]
              /\ Len(patches) = 2 =>
                    /\ patches[1].ok
                    /\ patches[2].id = P.id
                    /\ DOMAIN patches[2].properties = {"Processed Notes"}
                    /\ Contains(last'.intent["reason"],
                                patches[2].properties["Processed Notes"])
                    /\ patches[2].ok =>
                          Contains(last'.intent["reason"], Record(store', P.id).notes)
              /\ (answered /\ Len(patches) >= 1 /\ patches[1].ok) => Len(patches) = 2
              /\ (last'.reply = "archived") <=> (Len(patches) >= 1 /\ patches[1].ok)
              /\ (last'.reply = "archived") => Record(store', P.id).status = sArchived
              /\ Touched(store, store') \subseteq {P.id} ]_vars

\* a project was archived, and reported so, although the patch that carries
\* the reason was refused
ArchivedWithoutNote ==
    /\ last.kind = "text" /\ last.intent = ArchiveMoon /\ last.reply = "archived"
    /\ Len(Patches(last.calls)) = 2
    /\ Patches(last.calls)[1].ok /\ ~Patches(last.calls)[2].ok
    /\ \E i \in 1..Len(store) : store[i].status = sArchived /\ store[i].notes = sV1

----------------------------------------------------------------------------
(* The tiered lookup and the similarity matcher *)

Least(S) == CHOOSE x \in S : \A y \in S : x <= y

\* the places in the store of the projects that satisfy each tier
ExactNameAt(k) == { i \in 1..Len(store) : Lower(store[i].name) = Lower(k) }
NameHoldsAt(k) == { i \in 1..Len(store) : Contains(Lower(k), Lower(store[i].name)) }
TypeHoldsAt(k) == { i \in 1..Len(store) : Contains(Lower(k), Lower(store[i].type)) }
NotesHoldAt(k) == { i \in 1..Len(store) : Contains(Lower(k), Lower(store[i].notes)) }

\* C16: find_project_by_keywords returns, compared without case, the first
\* project in store order whose name equals the identifier, else the first
\* whose name contains it, else the first whose type contains it, else the
\* first whose notes contain it, else nothing.
TieredLookupOrder ==
    last.kind = "lookup" =>
        last.result =
            IF ExactNameAt(last.data) # {} THEN store[Least(ExactNameAt(last.data))]
            ELSE IF NameHoldsAt(last.data) # {} THEN store[Least(NameHoldsAt(last.data))]
            ELSE IF TypeHoldsAt(last.data) # {} THEN store[Least(TypeHoldsAt(last.data))]
            ELSE IF NotesHoldAt(last.data) # {} THEN store[Least(NotesHoldAt(last.data))]
            ELSE NoProject

\* 'Moon' was returned for 'moon' although 'Moon Song', which only contains the
\* keyword, comes first in the store
ExactNameOutranksEarlierPartial ==
    /\ last.kind = "lookup" /\ last.data = sMoon
    /\ Len(store) >= 2
    /\ store[1].name = sMoonSong /\ store[2].name = sMoonCap
    /\ last.result = store[2]

\* the score of the project of the store that a result of the matcher copies
ScoreInStore(r, k) ==
    LET j == CHOOSE j \in 1..Len(store) : store[j].id = r.id
    IN  _calculate_similarity_score(store[j], Split(Lower(k)))

\* C17: for a keyword string, a list of projects and a limit that is a natural
\* number, find_similar_projects returns copies of projects of the list, each
\* with its score, which is above 0, in non-increasing order of score, no
\* project twice and at most limit of them; it returns the empty list when the
\* list is empty or no project scores above 0.
MatcherResultSound ==
    last.kind = "similar" =>
        LET r == last.result
        IN  /\ Len(r) <= last.limit
            /\ \A i \in 1..Len(r) :
                  /\ \E j \in 1..Len(store) :
                        store[j] = [f \in DOMAIN store[j] |-> r[i][f]]
                  /\ r[i].similarity_score = ScoreInStore(r[i], last.data)
                  /\ r[i].similarity_score > 0
            /\ \A i, j \in 1..Len(r) :
                  i < j => /\ r[i].similarity_score >= r[j].similarity_score
                           /\ r[i].id # r[j].id
            /\ (\A j \in 1..Len(store) :
                    _calculate_similarity_score(store[j], Split(Lower(last.data))) = 0)
                  => r = <<>>

\* two of three projects were returned, the higher score first, and the project
\* that scores 0 was left out
ZeroScoreLeftOut ==
    /\ last.kind = "similar" /\ last.limit = 2
    /\ Len(store) = 3 /\ Len(last.result) = 2
    /\ last.result[1].similarity_score > last.result[2].similarity_score
    /\ \E j \in 1..Len(store) :
          _calculate_similarity_score(store[j], Split(Lower(last.data))) = 0

\* the place of a project in the store
PlaceOf(id) == CHOOSE j \in 1..Len(store) : store[j].id = id

\* C18: projects of equal score come in the result in the order they have in
\* the store's list; for the store ['Moon Song' (Song), 'Moon Ritual'
\* (Workshop)] and the keyword 'moon' both are returned with equal scores,
\* 'Moon Song' first.
EqualScoresKeepStoreOrder ==
    last.kind = "similar" =>
        LET r == last.result
        IN  /\ \A i, j \in 1..Len(r) :
                  (i < j /\ r[i].similarity_score = r[j].similarity_score)
                     => PlaceOf(r[i].id) < PlaceOf(r[j].id)
            /\ ( /\ Len(store) = 2
                 /\ store[1].name = sMoonSong /\ store[1].type = sSong
                 /\ store[2].name = sMoonRit /\ store[2].type = sWorkshop
                 /\ last.data = sMoon /\ last.limit >= 2 )
               => /\ Len(r) = 2
                  /\ r[1].similarity_score = r[2].similarity_score
                  /\ r[1].name = sMoonSong /\ r[2].name = sMoonRit

\* the example: 'Moon Song' before 'Moon Ritual', with equal scores
MoonSongBeforeMoonRitual ==
    /\ last.kind = "similar" /\ last.data = sMoon /\ last.limit = 5
    /\ Len(store) = 2
    /\ store[1].name = sMoonSong /\ store[2].name = sMoonRit
    /\ Len(last.result) = 2
    /\ last.result[1].name = sMoonSong /\ last.result[2].name = sMoonRit
    /\ last.result[1].similarity_score = last.result[2].similarity_score

\* fuzzy: the keyword (3 characters or more) is part of a word of the text, a
\* word (3 characters or more) is part of the keyword, or the synonym table
\* links the keyword and the text
Fuzzy(kw, text) ==
    LET words == Split(text)
    IN  \/ \E w \in 1..Len(words) : Len(kw) >= 3 /\ Contains(kw, words[w])
        \/ \E w \in 1..Len(words) : Len(words[w]) >= 3 /\ Contains(words[w], kw)
        \/ \E e \in 1..Len(variations) :
              \/ kw = variations[e].base
                 /\ \E v \in variations[e].variants : Contains(v, text)
              \/ kw \in variations[e].variants /\ Contains(variations[e].base, text)

Weight(holds, w) == IF holds THEN w ELSE 0

RECURSIVE WeightedSum(_, _)
\* the sum of the contributions of the keywords for a project
WeightedSum(p, kws) ==
    IF kws = <<>> THEN 0
    ELSE LET kw == Head(kws)
             tags == JoinSpace([t \in 1..Len(p.tags) |-> Lower(p.tags[t])])
         IN    Weight(Contains(kw, Lower(p.name)), 10)
             + Weight(Contains(kw, Lower(p.type)), 8)
             + Weight(Contains(kw, tags), 6)
             + Weight(Contains(kw, Lower(p.notes))
                        \/ Contains(kw, Lower(p.original_audio)), 3)
             + Weight(Fuzzy(kw, Lower(p.name)), 5)
             + Weight(Fuzzy(kw, Lower(p.type)), 4)
             + WeightedSum(p, Tail(kws))

\* C19: the similarity score of a project for a keyword string is the sum,
\* over its lower-cased whitespace-separated keywords, of 10 (keyword in the
\* name), 8 (in the type), 6 (in the space-joined tags), 3 (in the notes or the
\* original audio, once), 5 (fuzzy match of the name) and 4 (fuzzy match of
\* the type).
ScoreIsWeightedSum ==
    last.kind = "score" =>
        last.result = WeightedSum(last.project, Split(Lower(last.data)))

\* a keyword found in the notes and in the original audio, and nowhere else,
\* scored 3
NotesAndAudioScoreOnce ==
    /\ last.kind = "score" /\ last.data = sMoon
    /\ Contains(sMoon, Lower(last.project.notes))
    /\ Contains(sMoon, Lower(last.project.original_audio))
    /\ last.result = 3

----------------------------------------------------------------------------
(* Messages, from the oracle's answer to the reply *)

\* the project fields that the properties of a request set
FieldOf(property) ==
    CASE property = "Name" -> "name"
      [] property = "Type" -> "type"
      [] property = "Tags" -> "tags"
      [] property = "Status" -> "status"
      [] property = "Processed Notes" -> "notes"
      [] property = "Original Audio" -> "original_audio"

FieldsWritten(calls) ==
    UNION { { FieldOf(k) : k \in DOMAIN calls[c].properties } :
              c \in { c \in 1..Len(calls) : calls[c].op = "patch" /\ calls[c].ok } }

\* C21: an update_project_info on a resolvable project that reports success
\* wrote exactly the fields of updates among name, type and tags, each with
\* its value, left the other fields of the project and the other projects
\* unchanged, and its message lists the fields written.
InfoWritesProvidedFields ==
    [][ (MessageStep("update_project_info") /\ last'.reply = "info_updated") =>
          LET P == ResolvedProject
              updates == last'.intent["updates"]
          IN  /\ Record(store', P.id) =
                    [id |-> P.id,
                     name |-> Get(updates, "name", P.name),
                     type |-> Get(updates, "type", P.type),
                     tags |-> Get(updates, "tags", P.tags),
                     status |-> P.status,
                     notes |-> P.notes,
                     original_audio |-> P.original_audio]
              /\ Touched(store, store') \subseteq {P.id}
              /\ { last'.changes[k] : k \in 1..Len(last'.changes) }
                    = FieldsWritten(last'.calls) ]_vars

\* C22: an update_project with project_name and new_status addresses its one
\* patch to a project whose name is project_name and, when the patch
\* succeeds, sets that project's status and nothing else; when no project has
\* that name, nothing is patched and not-found is reported.
LegacyUpdateByExactName ==
    [][ (MessageStep("update_project")
           /\ Get(last'.intent, "project_name", <<>>) # <<>>
           /\ Get(last'.intent, "new_status", <<>>) # <<>>) =>
          LET named == { i \in 1..Len(store) : store[i].name = last'.intent["project_name"] }
              patches == Patches(last'.calls)
          IN  IF named # {}
              THEN /\ Len(patches) = 1
                   /\ patches[1].id \in { store[i].id : i \in named }
                   /\ patches[1].ok =>
                         /\ Record(store', patches[1].id) =
                               [Record(store, patches[1].id) EXCEPT
                                   !.status = last'.intent["new_status"]]
                         /\ Touched(store, store') \subseteq {patches[1].id}
                         /\ last'.reply = "status_updated"
              ELSE /\ store' = store
                   /\ \A k \in 1..Len(patches) : ~patches[k].ok
                   /\ last'.reply = "not_found_or_failed" ]_vars

LookupActions == {"update_status", "add_notes", "update_project_info", "archive_project"}

\* the fields an action cannot do without
RequiredFields(action) ==
    CASE action = "update_status" -> {"project_identifier", "new_status"}
      [] action = "add_notes" -> {"project_identifier", "additional_notes"}
      [] action = "update_project_info" -> {"project_identifier", "updates"}
      [] action = "archive_project" -> {"project_identifier"}
      [] action = "update_project" -> {"project_name", "new_status"}
      [] OTHER -> {}

FieldMissing(intent, f) ==
    \/ f \notin DOMAIN intent
    \/ IF f = "updates" THEN intent[f] = EmptyDict ELSE intent[f] = <<>>

SomeFieldMissing(intent) ==
    \E f \in RequiredFields(Get(intent, "action", "")) : FieldMissing(intent, f)

\* no project of the store satisfies a tier of the lookup for the identifier
ResolvesToNone(k) ==
    ExactNameAt(k) \cup NameHoldsAt(k) \cup TypeHoldsAt(k) \cup NotesHoldAt(k) = {}

\* C23: for update_status, add_notes, update_project_info and archive_project
\* with their required fields, when the identifier resolves to no stored
\* project the handler reports not-found after its one read, issues no create
\* or patch request and leaves the store unchanged.
UnresolvedReportsNotFound ==
    [][ ( /\ last'.kind \in {"text", "voice"}
          /\ Get(last'.intent, "action", "") \in LookupActions
          /\ ~SomeFieldMissing(last'.intent)
          /\ ResolvesToNone(IdentifierOf(last'.intent)) ) =>
          /\ last'.reply = "not_found"
          /\ Len(last'.calls) = 1 /\ last'.calls[1].op = "query"
          /\ store' = store
          /\ pending' = pending ]_vars

\* an archive_project for a project the store does not hold was answered
\* with not-found after a read that the store answered
UnknownProjectNotArchived ==
    /\ last.kind = "text" /\ last.intent = ArchiveUnknown
    /\ last.reply = "not_found"
    /\ last.calls = <<QueryCall(TRUE)>>
    /\ store # <<>>

\* C24: when a required field of an update_status, add_notes,
\* update_project_info, archive_project or update_project intent is missing
\* or empty, the handler answers with the clarification message and makes no
\* store request.
MissingFieldAsksNoStore ==
    [][ (last'.kind \in {"text", "voice"} /\ SomeFieldMissing(last'.intent)) =>
          /\ last'.reply = "not_specified"
          /\ last'.calls = <<>>
          /\ store' = store
          /\ pending' = pending ]_vars

\* an update_status without new_status for a project the store holds was
\* answered with the clarification message and no store request
StatusWithoutNewStatusAsked ==
    /\ last.kind = "text" /\ last.intent = StatusNoStatus
    /\ last.reply = "not_specified" /\ last.calls = <<>>
    /\ \E i \in 1..Len(store) : Contains(sMoon, Lower(store[i].name))

\* the places of the projects a query asks for
Matching(intent) ==
    LET filters == Get(intent, "filters", EmptyDict)
    IN  IF Get(intent, "query_type", "") = "by_status"
        THEN { i \in 1..Len(store) : store[i].status = Get(filters, "status", <<>>) }
        ELSE IF Get(intent, "query_type", "") = "by_type"
        THEN { i \in 1..Len(store) : store[i].type = Get(filters, "type", <<>>) }
        ELSE 1..Len(store)

\* C25: a query_projects fetches from the store the set its query_type asks
\* for (by status, by type, else all), answers 'no projects found' and not an
\* error message when the set is empty, and never changes the store.
QueryFetchesMatchingSet ==
    [][ MessageStep("query_projects") =>
          /\ store' = store
          /\ Len(last'.calls) = 1 /\ last'.calls[1].op = "query"
          /\ last'.calls[1].ok =>
                last'.reply = IF Matching(last'.intent) = {}
                              THEN "no_projects" ELSE "projects_listed" ]_vars

\* the generic failure message of an action
FailureReply(action) ==
    CASE action = "update_status" -> "update_failed"
      [] action = "add_notes" -> "notes_failed"
      [] action = "update_project_info" -> "info_failed"
      [] action = "archive_project" -> "archive_failed"
      [] action = "clarify_intent" -> "create_failed"

\* C26: when a store request fails during update_status, add_notes,
\* update_project_info, archive_project or clarify_intent, the user receives
\* the failure message of that action and not the not-found message, and the
\* failed request is not issued again.
StoreFailureReported ==
    [][ ( /\ last'.kind \in {"text", "voice"}
          /\ Get(last'.intent, "action", "") \in LookupActions \cup {"clarify_intent"}
          /\ \E k \in 1..Len(last'.calls) : ~last'.calls[k].ok ) =>
          /\ last'.reply = FailureReply(last'.intent["action"])
          /\ last'.reply # "not_found"
          /\ \A j, k \in 1..Len(last'.calls) :
                (j < k /\ ~last'.calls[j].ok) =>
                    last'.calls[k] \notin { last'.calls[j],
                                            [last'.calls[j] EXCEPT !.ok = TRUE] } ]_vars

\* C27: when the oracle's answer to the intent prompt of a message is
\* missing or is not JSON, the user gets the 'could not understand' message,
\* no store request is made and analyze_intent was invoked once.
MalformedIsNullOnce ==
    (last.kind \in {"text", "voice"} /\ last.response \in {"none", "text"}) =>
        /\ last.reply = "not_understood"
        /\ last.calls = <<>>
        /\ last.invocations = 1

----------------------------------------------------------------------------
(* Two note-adding operations on one project *)

\* the text a task's operation appends to the notes
NoteText(task) ==
    IF "additional_notes" \in DOMAIN task.ctx.intent_analysis
    THEN task.ctx.intent_analysis["additional_notes"]
    ELSE Get(Get(task.ctx.intent_analysis, "project_data", EmptyDict), "notes", <<>>)

----------------------------------------------------------------------------
(* A button of an earlier keyboard *)

\* the step handles the press of a button of a keyboard that is not the last
\* one sent to the user, right after the clarify_intent that sent the last one
StaleButtonStep ==
    /\ last'.kind = "callback"
    /\ last.kind \in {"text", "voice"} /\ last.reply = "clarify_keyboard"
    /\ last.user = last'.user
    /\ last'.keyboard < Len(tasks)

FailedReadCreates ==
    ( /\ last.kind \in {"text", "voice"}
      /\ Get(last.intent, "action", "") = "clarify_intent"
      /\ Get(last.intent, "search_keywords", <<>>) # <<>>
      /\ last.calls # <<>> /\ last.calls[1] = QueryCall(FALSE) ) =>
        /\ Len(last.calls) = 2
        /\ last.calls[2] = CreateCall(CreateProperties(last.intent, last.transcription),
                                      last.calls[2].ok)
        /\ last.reply = IF last.calls[2].ok THEN "created" ELSE "create_failed"

\* a second 'Mountain Retreat' was created after a failed read, beside the
\* stored one that the keyword 'retreat' matches
DuplicateCreatedAfterFailedRead ==
    /\ last.kind = "text" /\ last.intent = ClarifyRetreat
    /\ last.calls[1] = QueryCall(FALSE) /\ last.reply = "created"
    /\ Cardinality({ i \in 1..Len(store) : store[i].name = sMountain }) = 2
    /\ find_similar_projects(SelectSeq(store, LAMBDA p : p.id = 3), sRetreat, 5) # <<>>

====
